---- MODULE Spec2Model ----
(***************************************************************************)
(* Model of the semantic structure-extraction core of laika                *)
(* (packages/semantic): rule engine, border / axis / column / wall / room  *)
(* / door detectors and the builder that runs them.                        *)
(*                                                                         *)
(* Conventions of the model                                                *)
(*  - a Python str is a sequence of one-character strings, so that         *)
(*    str.upper() and the substring test `k in s` are computed;            *)
(*  - a coordinate is an integer (drawing units); the value NonNumeric     *)
(*    stands for a JSON null / string found where a number is expected;    *)
(*  - an optional dict (a point) is a sequence: <<>> when absent,          *)
(*    <<x, y>> when present;                                               *)
(*  - an operator that models a function which can raise returns a record *)
(*    with a field `raised`.                                               *)
(***************************************************************************)
EXTENDS Integers, Sequences, FiniteSets, TLC

VARIABLES
    pc,              \* the step the run is at
    entities,        \* the entity list of the drawing
    blocks,          \* the block library
    selections,      \* the caller's selections
    rules,           \* the caller's rules
    basic_records, borders, axis_summaries, columns, walls, rooms, doors,
    out,             \* the list build_all_records returns
    result           \* the value returned by a rule-engine call

vars == <<pc, entities, blocks, selections, rules,
          basic_records, borders, axis_summaries, columns, walls, rooms, doors,
          out, result>>

(***************************************************************************)
(* Generic helpers                                                         *)
(***************************************************************************)
Abs(n) == IF n < 0 THEN -n ELSE n

Min2(a, b) == IF a <= b THEN a ELSE b

Max2(a, b) == IF a >= b THEN a ELSE b

SetMin(S) == CHOOSE m \in S : \A n \in S : m <= n

\* round(n / d), Python 3: halves go to the even neighbour
round_half_even(n, d) ==
    LET q == n \div d
        r == n % d
    IN  IF 2 * r < d THEN q
        ELSE IF 2 * r > d THEN q + 1
        ELSE IF q % 2 = 0 THEN q ELSE q + 1

SetMax(S) == CHOOSE m \in S : \A n \in S : m >= n

Range(s) == {s[i] : i \in DOMAIN s}

RECURSIVE Concat(_)
Concat(ss) == IF ss = <<>> THEN <<>> ELSE Head(ss) \o Concat(Tail(ss))

(***************************************************************************)
(* Python strings                                                          *)
(***************************************************************************)
LowerChars == <<"a", "b", "c", "d", "e", "f", "g", "h", "i", "j", "k", "l", "m",
                "n", "o", "p", "q", "r", "s", "t", "u", "v", "w", "x", "y", "z">>

UpperChars == <<"A", "B", "C", "D", "E", "F", "G", "H", "I", "J", "K", "L", "M",
                "N", "O", "P", "Q", "R", "S", "T", "U", "V", "W", "X", "Y", "Z">>

UpChar(c) ==
    IF \E i \in DOMAIN LowerChars : LowerChars[i] = c
    THEN UpperChars[CHOOSE i \in DOMAIN LowerChars : LowerChars[i] = c]
    ELSE c

\* str.upper()
Upper(s) == [i \in DOMAIN s |-> UpChar(s[i])]

\* the substring test `k in s`
IsSubstr(k, s) ==
    \E off \in 0..(Len(s) - Len(k)) : \A i \in 1..Len(k) : s[off + i] = k[i]

(***************************************************************************)
(* Rule engine: rules.py, matchers.py                                      *)
(***************************************************************************)
\* Python None where a kind (a str) is expected
None == "None"

\* A few layer / block names as Python strings
Str1(a) == <<a>>

Str2(a, b) == <<a, b>>

Str3(a, b, c) == <<a, b, c>>

Str4(a, b, c, d) == <<a, b, c, d>>

Str5(a, b, c, d, e) == <<a, b, c, d, e>>

Rule(kind, keys, source) == [kind |-> kind, keys |-> keys, source |-> source, match |-> "contains"]

\* rules.py DEFAULT_RULES (no "match" entry: rule.get("match", "contains"))
DEFAULT_RULES == <<
    Rule("border", <<Str4("B","O","R","D"), Str5("T","I","T","L","E"), Str4("F","O","R","M")>>, "layer"),
    Rule("dimension", <<Str3("D","I","M")>>, "layer"),
    Rule("symbol", <<Str3("S","Y","M")>>, "layer"),
    Rule("text", <<Str3("T","X","T"), Str4("T","E","X","T")>>, "layer"),
    Rule("axis", <<Str4("A","X","I","S"), Str4("G","R","I","D")>>, "layer"),
    Rule("column", <<Str3("C","O","L")>>, "layer"),
    Rule("steel_column", <<Str3("S","T","L")>>, "layer"),
    Rule("concrete", <<Str3("C","O","N")>>, "layer"),
    Rule("wall", <<Str3("W","A","L")>>, "layer"),
    Rule("door", <<Str4("D","O","O","R")>>, "layer"),
    Rule("window", <<Str3("W","I","N")>>, "layer"),
    Rule("stair", <<Str3("S","T","R")>>, "layer"),
    Rule("elevator", <<Str3("E","L","V")>>, "layer"),
    Rule("furniture", <<Str4("F","U","R","N")>>, "layer"),
    Rule("finish", <<Str3("F","I","N")>>, "layer"),
    Rule("block", <<Str5("B","L","O","C","K")>>, "type") >>

\* rules.py SELECTION_RULE_MAP: selection key -> <<kind, source>>
SELECTION_RULE_MAP ==
    [k \in {"basic-border-block", "basic-dim-layer", "basic-symbol-layer", "basic-text-layer",
            "struct-axis-layer", "struct-ccol-layer", "struct-scol-layer", "struct-cwall-layer",
            "non-wall-layer", "non-door-layer", "non-window-layer", "non-stair-layer",
            "non-elevator-layer", "non-furniture-layer", "non-finish-layer"} |->
        CASE k = "basic-border-block" -> <<"border", "block">>
          [] k = "basic-dim-layer" -> <<"dimension", "layer">>
          [] k = "basic-symbol-layer" -> <<"symbol", "layer">>
          [] k = "basic-text-layer" -> <<"text", "layer">>
          [] k = "struct-axis-layer" -> <<"axis", "layer">>
          [] k = "struct-ccol-layer" -> <<"column", "layer">>
          [] k = "struct-scol-layer" -> <<"steel_column", "layer">>
          [] k = "struct-cwall-layer" -> <<"concrete", "layer">>
          [] k = "non-wall-layer" -> <<"wall", "layer">>
          [] k = "non-door-layer" -> <<"door", "layer">>
          [] k = "non-window-layer" -> <<"window", "layer">>
          [] k = "non-stair-layer" -> <<"stair", "layer">>
          [] k = "non-elevator-layer" -> <<"elevator", "layer">>
          [] k = "non-furniture-layer" -> <<"furniture", "layer">>
          [] k = "non-finish-layer" -> <<"finish", "layer">>]

\* the entity field a rule source reads, uppercased (matchers.py 17-19)
entity_layer(entity) == Upper(entity.layer)

entity_dtype(entity) == Upper(entity.type)

entity_name(entity) == Upper(entity.name)

\* one iteration of the loop of match_rule (matchers.py 21-42): the pair
\* returned by this rule, or <<None, <<>>>> when the loop goes on
match_one(entity, rule) ==
    LET keys == rule.keys
        src == rule.source
        match_type == rule.match
        hit(field) == IF match_type = "exact"
                      THEN \E i \in DOMAIN keys : keys[i] = field
                      ELSE \E i \in DOMAIN keys : IsSubstr(keys[i], field)
    IN  IF src = "layer" /\ hit(entity_layer(entity))
        THEN <<rule.kind, <<"layer:", entity_layer(entity)>> >>
        ELSE IF src = "type" /\ hit(entity_dtype(entity))
        THEN <<rule.kind, <<"type:", entity_dtype(entity)>> >>
        ELSE IF src = "block" /\ hit(entity_name(entity))
        THEN <<rule.kind, <<"block:", entity_name(entity)>> >>
        ELSE <<None, <<>> >>

\* match_rule with the loop never returning early: the last matching rule wins
RECURSIVE match_rule_last(_, _)
match_rule_last(entity, rs) ==
    IF rs = <<>> THEN <<None, <<>> >>
    ELSE IF match_rule_last(entity, Tail(rs))[2] # <<>>
         THEN match_rule_last(entity, Tail(rs))
         ELSE match_one(entity, Head(rs))

\* matchers.py match_rule (and parse2_node.py _match_rule, the same code)
RECURSIVE match_rule(_, _)
match_rule(entity, rs) ==
    IF rs = <<>> THEN <<None, <<>> >>
    ELSE IF match_one(entity, Head(rs))[2] # <<>>
         THEN match_one(entity, Head(rs))
         ELSE match_rule(entity, Tail(rs))

\* matchers.py rules_from_selections; a selections dict is the sequence of
\* its items in insertion order, None / {} is <<>>.  The function has no
\* raise statement: `raised` is FALSE on every path.
RECURSIVE rules_from_items(_)
rules_from_items(items) ==
    IF items = <<>> THEN <<>>
    ELSE LET key == Head(items).key
             values == Head(items).values
             keys == [i \in DOMAIN SelectSeq(values, LAMBDA v : v # <<>>) |->
                         Upper(SelectSeq(values, LAMBDA v : v # <<>>)[i])]
         IN  IF key \notin DOMAIN SELECTION_RULE_MAP THEN rules_from_items(Tail(items))
             ELSE IF values = <<>> THEN rules_from_items(Tail(items))
             ELSE IF keys = <<>> THEN rules_from_items(Tail(items))
             ELSE <<[kind |-> SELECTION_RULE_MAP[key][1], keys |-> keys,
                     source |-> SELECTION_RULE_MAP[key][2], match |-> "exact"]>>
                  \o rules_from_items(Tail(items))

rules_from_selections(sel) ==
    [raised |-> FALSE, rules |-> IF sel = <<>> THEN <<>> ELSE rules_from_items(sel)]

\* selections.get(key) or []
sel_get(sel, key) ==
    IF \E i \in DOMAIN sel : sel[i].key = key
    THEN sel[CHOOSE i \in DOMAIN sel : sel[i].key = key].values
    ELSE <<>>

\* {str(v).upper() for v in values if v}
upper_set(values) == {Upper(values[i]) : i \in {j \in DOMAIN values : values[j] # <<>>}}

(***************************************************************************)
(* Entities                                                                *)
(***************************************************************************)
\* a JSON null or a non-numeric string found where a number is expected
NonNumeric == -999999

\* isinstance(v, (int, float))
IsNum(v) == v # NonNumeric

T_LINE == Str4("L","I","N","E")

T_LWPOLYLINE == <<"L","W","P","O","L","Y","L","I","N","E">>

T_CIRCLE == <<"C","I","R","C","L","E">>

T_INSERT == <<"I","N","S","E","R","T">>

T_TEXT == Str4("T","E","X","T")

T_ARC == Str3("A","R","C")

\* an entity dict; a key the entity does not carry is <<>> (a dict / list /
\* str valued key) or 0 (xScale, yScale, rotation: `insert.get(k) or 1`)
Entity(type, layer, handle) ==
    [type |-> type, layer |-> layer, handle |-> handle, name |-> <<>>,
     vertices |-> <<>>, startPoint |-> <<>>, endPoint |-> <<>>,
     center |-> <<>>, radius |-> NonNumeric, position |-> <<>>,
     xScale |-> 0, yScale |-> 0, rotation |-> 0, text |-> <<>>]

Line(layer, handle, p, q) == [Entity(T_LINE, layer, handle) EXCEPT !.vertices = <<p, q>>]

\* a LINE that carries startPoint / endPoint instead of vertices
LineSE(layer, handle, p, q) ==
    [Entity(T_LINE, layer, handle) EXCEPT !.startPoint = p, !.endPoint = q]

Polyline(layer, handle, pts) == [Entity(T_LWPOLYLINE, layer, handle) EXCEPT !.vertices = pts]

Circle(layer, handle, c, r) == [Entity(T_CIRCLE, layer, handle) EXCEPT !.center = c, !.radius = r]

Insert(layer, handle, name, pos) ==
    [Entity(T_INSERT, layer, handle) EXCEPT !.name = name, !.position = pos]

Text(layer, handle, pos, txt) ==
    [Entity(T_TEXT, layer, handle) EXCEPT !.position = pos, !.text = txt]

(***************************************************************************)
(* geometry.py                                                             *)
(***************************************************************************)
\* the vertices with numeric x and y (geometry.py 22-28, 45-51)
numeric_vertices(verts) == SelectSeq(verts, LAMBDA v : IsNum(v[1]) /\ IsNum(v[2]))

\* geometry.py extract_points; float(None) / float("abc") raises
extract_points(entity) ==
    LET dtype == entity.type
        pts == numeric_vertices(entity.vertices)
        sp == entity.startPoint
        ep == entity.endPoint
    IN  IF dtype = T_LINE /\ Len(entity.vertices) >= 2 /\ Len(pts) >= 2
        THEN [raised |-> FALSE, pts |-> pts]
        ELSE IF dtype = T_LINE /\ sp # <<>> /\ ep # <<>>
        THEN IF IsNum(sp[1]) /\ IsNum(sp[2]) /\ IsNum(ep[1]) /\ IsNum(ep[2])
             THEN [raised |-> FALSE, pts |-> <<sp, ep>>]
             ELSE [raised |-> TRUE, pts |-> <<>>]
        ELSE IF dtype = T_LWPOLYLINE
        THEN [raised |-> FALSE, pts |-> pts]
        ELSE [raised |-> FALSE, pts |-> <<>>]

\* geometry.py points_inside_bbox
points_inside_bbox(points, bbox) ==
    \A i \in DOMAIN points :
        ~ (points[i][1] < bbox.xmin \/ points[i][1] > bbox.xmax
           \/ points[i][2] < bbox.ymin \/ points[i][2] > bbox.ymax)

\* geometry.py axis_orientation: <<>> for None, else <<axis_type, coord>>.
\* On integers max - min < 1e-6 is max = min, and the mean is that value.
axis_orientation(points) ==
    LET xs == {points[i][1] : i \in DOMAIN points}
        ys == {points[i][2] : i \in DOMAIN points}
    IN  IF points = <<>> THEN <<>>
        ELSE IF SetMax(xs) - SetMin(xs) < 1 THEN <<"Y_AXIS", SetMin(xs)>>
        ELSE IF SetMax(ys) - SetMin(ys) < 1 THEN <<"X_AXIS", SetMin(ys)>>
        ELSE <<>>

\* geometry.py block_bbox_from_entities: <<>> for None, else <<bbox>>
block_bbox_from_entities(block_entities) ==
    LET vs == Concat([i \in DOMAIN block_entities |-> numeric_vertices(block_entities[i].vertices)])
        xs == {vs[i][1] : i \in DOMAIN vs}
        ys == {vs[i][2] : i \in DOMAIN vs}
    IN  IF vs = <<>> THEN <<>>
        ELSE <<[min_x |-> SetMin(xs), min_y |-> SetMin(ys),
                max_x |-> SetMax(xs), max_y |-> SetMax(ys)]>>

\* cos and sin of a rotation that is a multiple of 90 degrees
cos_deg(rot) == CASE rot % 360 = 0 -> 1 [] rot % 360 = 180 -> -1 [] OTHER -> 0

sin_deg(rot) == CASE rot % 360 = 90 -> 1 [] rot % 360 = 270 -> -1 [] OTHER -> 0

\* geometry.py transform_bbox; arithmetic on a None / str operand raises
transform_bbox(bbox, insert) ==
    LET tx == IF insert.position # <<>> THEN insert.position[1] ELSE 0
        ty == IF insert.position # <<>> THEN insert.position[2] ELSE 0
        sx == IF insert.xScale = 0 THEN 1 ELSE insert.xScale
        sy == IF insert.yScale = 0 THEN 1 ELSE insert.yScale
        rot == insert.rotation
        corners == << <<bbox.min_x, bbox.min_y>>, <<bbox.max_x, bbox.min_y>>,
                      <<bbox.max_x, bbox.max_y>>, <<bbox.min_x, bbox.max_y>> >>
        xw(c) == (c[1] * sx) * cos_deg(rot) - (c[2] * sy) * sin_deg(rot) + tx
        yw(c) == (c[1] * sx) * sin_deg(rot) + (c[2] * sy) * cos_deg(rot) + ty
        xs == {xw(corners[i]) : i \in 1..4}
        ys == {yw(corners[i]) : i \in 1..4}
    IN  IF ~ (IsNum(tx) /\ IsNum(ty) /\ IsNum(sx) /\ IsNum(sy) /\ IsNum(rot))
        THEN [raised |-> TRUE, bbox |-> [xmin |-> 0, ymin |-> 0, xmax |-> 0, ymax |-> 0]]
        ELSE [raised |-> FALSE,
              bbox |-> [xmin |-> SetMin(xs), ymin |-> SetMin(ys),
                        xmax |-> SetMax(xs), ymax |-> SetMax(ys)]]

\* geometry.py axis_intersections: [(x, y) for x in xs for y in ys]
axis_intersections(x_axes, y_axes) ==
    Concat([i \in DOMAIN y_axes |-> [j \in DOMAIN x_axes |-> <<y_axes[i].coord, x_axes[j].coord>>]])

\* a size (radius, diameter, width, height) is kept in thousandths of a
\* drawing unit, so that rounding it to two decimals is not the identity
SIZE_SCALE == 1000

\* geometry.py entity_center_and_size: none = TRUE for None, else the
\* center and the size dict.  Halving is exact on the even coordinates of
\* the input catalogue.
entity_center_and_size(entity) ==
    LET dtype == entity.type
        center == IF entity.center # <<>> THEN entity.center ELSE entity.position
        vs == numeric_vertices(entity.vertices)
        xs == {vs[i][1] : i \in DOMAIN vs}
        ys == {vs[i][2] : i \in DOMAIN vs}
        nothing == [raised |-> FALSE, none |-> TRUE, cx |-> 0, cy |-> 0,
                    size |-> [shape |-> "none", a |-> 0, b |-> 0]]
    IN  IF dtype = T_CIRCLE
        THEN IF center = <<>> THEN nothing
             ELSE IF ~ IsNum(entity.radius) THEN nothing
             ELSE IF ~ (IsNum(center[1]) /\ IsNum(center[2]))
             THEN [nothing EXCEPT !.raised = TRUE]
             ELSE [raised |-> FALSE, none |-> FALSE, cx |-> center[1], cy |-> center[2],
                   size |-> [shape |-> "circle", a |-> SIZE_SCALE * entity.radius,
                             b |-> SIZE_SCALE * entity.radius * 2]]
        ELSE IF dtype = T_LWPOLYLINE
        THEN IF vs = <<>> THEN nothing
             ELSE [raised |-> FALSE, none |-> FALSE,
                   cx |-> (SetMin(xs) + SetMax(xs)) \div 2,
                   cy |-> (SetMin(ys) + SetMax(ys)) \div 2,
                   size |-> [shape |-> "rect", a |-> SIZE_SCALE * (SetMax(xs) - SetMin(xs)),
                             b |-> SIZE_SCALE * (SetMax(ys) - SetMin(ys))]]
        ELSE nothing

\* match_intersection comparing the x offset only
match_intersection_x_only(center, intersections, eps) ==
    \E i \in DOMAIN intersections : Abs(center[1] - intersections[i][1]) <= eps

\* geometry.py match_intersection
match_intersection(center, intersections, eps) ==
    \E i \in DOMAIN intersections :
        /\ Abs(center[1] - intersections[i][1]) <= eps
        /\ Abs(center[2] - intersections[i][2]) <= eps

(***************************************************************************)
(* Semantic records                                                        *)
(***************************************************************************)
\* file_id and confidence (always None) are the same in every record and
\* are left out; geom_wkt is a rendering of the properties and is left out
Record(kind, source_rule, properties) ==
    [kind |-> kind, source_rule |-> source_rule, properties |-> properties]

\* the result of a detector: the list it returns, or an exception
Returned(records) == [raised |-> FALSE, records |-> records]

Raised == [raised |-> TRUE, records |-> <<>>]

\* list.sort(key=lambda x: x["coord"]): stable insertion into a sorted list
RECURSIVE insert_sorted(_, _)
insert_sorted(sorted, item) ==
    IF sorted = <<>> THEN <<item>>
    ELSE IF item.coord < Head(sorted).coord
         THEN <<item>> \o sorted
         ELSE <<Head(sorted)>> \o insert_sorted(Tail(sorted), item)

RECURSIVE sort_by_coord(_)
sort_by_coord(items) ==
    IF items = <<>> THEN <<>>
    ELSE insert_sorted(sort_by_coord(SubSeq(items, 1, Len(items) - 1)), items[Len(items)])

(***************************************************************************)
(* detectors/border.py                                                     *)
(***************************************************************************)
\* blocks is the sequence of the items of the blocks dict: [name, entities]
block_index(blks, name) ==
    IF \E i \in DOMAIN blks : blks[i].name = name
    THEN CHOOSE i \in DOMAIN blks : blks[i].name = name
    ELSE 0

\* border.py 34-39: the library key, exact match first, then the first key
\* that is equal ignoring case, else the selected name itself
border_block_key(blks, block_name) ==
    IF block_index(blks, block_name) # 0 THEN block_name
    ELSE IF \E i \in DOMAIN blks : Upper(blks[i].name) = Upper(block_name)
    THEN blks[SetMin({i \in DOMAIN blks : Upper(blks[i].name) = Upper(block_name)})].name
    ELSE block_name

\* border.py 56-78: the loop over the entities
RECURSIVE border_loop(_, _, _, _)
border_loop(ents, block_name, block_key, base_bbox) ==
    IF ents = <<>> THEN Returned(<<>>)
    ELSE LET ent == Head(ents)
             rest == border_loop(Tail(ents), block_name, block_key, base_bbox)
             world == transform_bbox(base_bbox, ent)
         IN  IF ent.type # T_INSERT THEN rest
             ELSE IF Upper(ent.name) # Upper(block_name) THEN rest
             ELSE IF world.raised \/ rest.raised THEN Raised
             ELSE Returned(<<Record("border", <<"block:", block_key>>,
                                    [block_name |-> block_key, insert_handle |-> ent.handle,
                                     bbox_local |-> base_bbox, bbox_world |-> world.bbox])>>
                           \o rest.records)

\* border.py build_border_records
build_border_records(blks, ents, sel) ==
    LET selected == sel_get(sel, "basic-border-block")
        block_name == selected[1]
        block_key == border_block_key(blks, block_name)
        base_bbox == block_bbox_from_entities(blks[block_index(blks, block_key)].entities)
    IN  IF sel = <<>> THEN Returned(<<>>)
        ELSE IF selected = <<>> THEN Returned(<<>>)
        ELSE IF block_index(blks, block_key) = 0 THEN Returned(<<>>)
        ELSE IF base_bbox = <<>> THEN Returned(<<>>)
        ELSE border_loop(ents, block_name, block_key, base_bbox[1])

(***************************************************************************)
(* detectors/axis.py                                                       *)
(***************************************************************************)
\* axis.py 43-75: the axis items of one border, in entity order; each item
\* carries its axis_type until the two lists are split
RECURSIVE axis_items(_, _, _)
axis_items(ents, axis_layers_upper, bbox) ==
    IF ents = <<>> THEN Returned(<<>>)
    ELSE LET item(ent, points, axis, rest) ==
                 IF ent.type \notin {T_LINE, T_LWPOLYLINE} THEN rest
                 ELSE IF Upper(ent.layer) \notin axis_layers_upper THEN rest
                 ELSE IF points.raised \/ rest.raised THEN Raised
                 ELSE IF points.pts = <<>> THEN rest
                 ELSE IF ~ points_inside_bbox(points.pts, bbox) THEN rest
                 ELSE IF axis = <<>> THEN rest
                 ELSE Returned(<<[handle |-> ent.handle, layer |-> ent.layer,
                                  coord |-> axis[2], axis_type |-> axis[1]]>> \o rest.records)
         IN  item(Head(ents), extract_points(Head(ents)),
                  axis_orientation(extract_points(Head(ents)).pts),
                  axis_items(Tail(ents), axis_layers_upper, bbox))

\* the labels of lines 80-84 given in entity order, without the sort of 77-78
label_axes_unsorted(items, prefix) ==
    [i \in DOMAIN items |->
        [handle |-> items[i].handle, layer |-> items[i].layer,
         coord |-> items[i].coord, label |-> <<prefix, i>>]]

\* axis.py 77-84: sort by coordinate, then label by 1-based position
label_axes(items, prefix) ==
    LET sorted == sort_by_coord(items)
    IN  [i \in DOMAIN sorted |->
            [handle |-> sorted[i].handle, layer |-> sorted[i].layer,
             coord |-> sorted[i].coord, label |-> <<prefix, i>>]]

\* axis.py 87-88: consecutive differences
spacing(axes) == [i \in 1..(Len(axes) - 1) |-> axes[i + 1].coord - axes[i].coord]

\* axis.py 34-113: the loop over the borders, idx counting from 1
RECURSIVE axis_loop(_, _, _, _)
axis_loop(bs, idx, ents, axis_layers_upper) ==
    IF idx > Len(bs) THEN Returned(<<>>)
    ELSE LET \* 90-113
             summary(bbox, x_axes, y_axes) ==
                 Record("axis_summary", <<"layer:struct-axis-layer">>,
                        [border_index |-> idx,
                         border_handle |-> bs[idx].properties.insert_handle,
                         x_axes |-> x_axes, y_axes |-> y_axes,
                         x_spacing |-> spacing(x_axes), y_spacing |-> spacing(y_axes),
                         bbox |-> bbox,
                         intersections |-> axis_intersections(x_axes, y_axes)])
             \* 77-84: horizontal lines are labelled Y<i>, vertical lines X<i>
             border(bbox, items, rest) ==
                 IF items.raised \/ rest.raised THEN Raised
                 ELSE Returned(<<summary(bbox,
                                   label_axes(SelectSeq(items.records,
                                                        LAMBDA it : it.axis_type = "X_AXIS"), "Y"),
                                   label_axes(SelectSeq(items.records,
                                                        LAMBDA it : it.axis_type # "X_AXIS"), "X"))>>
                               \o rest.records)
         IN  border(bs[idx].properties.bbox_world,
                    axis_items(ents, axis_layers_upper, bs[idx].properties.bbox_world),
                    axis_loop(bs, idx + 1, ents, axis_layers_upper))

\* build_axis_summary_records without the early returns of lines 24-30
build_axis_summary_records_unguarded(bs, ents, sel) ==
    axis_loop(bs, 1, ents, upper_set(sel_get(sel, "struct-axis-layer")))

\* axis.py build_axis_summary_records
build_axis_summary_records(bs, ents, sel) ==
    LET detect(axis_layers_upper) ==
            IF axis_layers_upper = {} THEN Returned(<<>>)
            ELSE axis_loop(bs, 1, ents, axis_layers_upper)
    IN  IF sel = <<>> THEN Returned(<<>>)
        ELSE detect(upper_set(sel_get(sel, "struct-axis-layer")))

(***************************************************************************)
(* detectors/column.py                                                     *)
(***************************************************************************)
\* round(v, 2) of a size v in thousandths, as a number of hundredths (sizes
\* that end in 5 thousandths, where the binary float decides, are not drawn)
round2(v) == round_half_even(v, SIZE_SCALE \div 100)

\* column.py size_key as a tuple that sorts like the Python tuple:
\* ("circle", r) < ("rect", a, b)
size_key(col) ==
    IF col.size.shape = "circle" THEN <<0, round2(col.size.a), 0>>
    ELSE <<1, round2(Max2(col.size.a, col.size.b)), round2(Min2(col.size.a, col.size.b))>>

key_less(k1, k2) ==
    \/ k1[1] < k2[1]
    \/ k1[1] = k2[1] /\ k1[2] < k2[2]
    \/ k1[1] = k2[1] /\ k1[2] = k2[2] /\ k1[3] < k2[3]

\* assign_column_types numbering the keys in the order of their first column
\* instead of the sorted order of line 37
assign_column_types_first_seen(cols) ==
    LET first(k) == SetMin({i \in DOMAIN cols : size_key(cols[i]) = k})
        unique == {size_key(cols[i]) : i \in DOMAIN cols}
        rank(k) == Cardinality({u \in unique : first(u) < first(k)}) + 1
    IN  [i \in DOMAIN cols |->
            [border_index |-> cols[i].border_index, center |-> cols[i].center,
             size |-> cols[i].size, column_type |-> <<"C", rank(size_key(cols[i]))>>]]

\* column.py assign_column_types: the label of a key is C<i>, i its
\* 1-based position in sorted(unique.keys())
assign_column_types(cols) ==
    LET unique == {size_key(cols[i]) : i \in DOMAIN cols}
        rank(k) == Cardinality({u \in unique : key_less(u, k)}) + 1
    IN  [i \in DOMAIN cols |->
            [border_index |-> cols[i].border_index, center |-> cols[i].center,
             size |-> cols[i].size, column_type |-> <<"C", rank(size_key(cols[i]))>>]]

\* column.py 83-111: the loop over the entities for one axis summary
RECURSIVE column_items(_, _, _, _)
column_items(ents, layer_set, props, eps) ==
    IF ents = <<>> THEN Returned(<<>>)
    ELSE LET item(ent, cd, rest) ==
                 IF Upper(ent.layer) \notin layer_set THEN rest
                 ELSE IF cd.raised \/ rest.raised THEN Raised
                 ELSE IF cd.none THEN rest
                 ELSE IF ~ points_inside_bbox(<< <<cd.cx, cd.cy>> >>, props.bbox) THEN rest
                 ELSE IF ~ match_intersection(<<cd.cx, cd.cy>>, props.intersections, eps) THEN rest
                 ELSE Returned(<<[border_index |-> props.border_index,
                                  center |-> <<cd.cx, cd.cy>>, size |-> cd.size]>> \o rest.records)
         IN  item(Head(ents), entity_center_and_size(Head(ents)),
                  column_items(Tail(ents), layer_set, props, eps))

\* column.py 73-111: the loop over the axis summaries
RECURSIVE column_loop(_, _, _, _)
column_loop(summaries, ents, layer_set, eps) ==
    IF summaries = <<>> THEN Returned(<<>>)
    ELSE LET both(props, here, rest) ==
                 IF props.intersections = <<>> THEN rest
                 ELSE IF here.raised \/ rest.raised THEN Raised
                 ELSE Returned(here.records \o rest.records)
         IN  both(Head(summaries).properties,
                  column_items(ents, layer_set, Head(summaries).properties, eps),
                  column_loop(Tail(summaries), ents, layer_set, eps))

\* column.py eps default
COLUMN_EPS == 150

\* column.py build_column_records
build_column_records(summaries, ents, sel) ==
    LET records(typed) ==
            [i \in DOMAIN typed |->
                Record("concrete_column", <<"layer:struct-ccol-layer">>, typed[i])]
        collected(cols) ==
            IF cols.raised THEN Raised ELSE Returned(records(assign_column_types(cols.records)))
        detect(layer_set) ==
            IF layer_set = {} THEN Returned(<<>>)
            ELSE collected(column_loop(summaries, ents, layer_set, COLUMN_EPS))
    IN  IF sel = <<>> THEN Returned(<<>>)
        ELSE detect(upper_set(sel_get(sel, "struct-ccol-layer")))

\* parse2_node.py: eps of _build_column_records, also passed by run (607)
PARSE2_COLUMN_EPS == 1

\* parse2_node.py run 591-606: axis_for_columns, one item per axis summary;
\* the bbox is that of the first border whose insert_handle is the
\* summary's border_handle.  An item is wrapped as the properties of a
\* summary, which is where column_loop reads it.
axis_for_columns(bs, summaries) ==
    LET first_border(handle) ==
            SetMin({b \in DOMAIN bs : bs[b].properties.insert_handle = handle})
        item(props) ==
            [properties |->
                [border_index |-> props.border_index,
                 bbox |-> bs[first_border(props.border_handle)].properties.bbox_world,
                 intersections |-> axis_intersections(props.x_axes, props.y_axes)]]
    IN  [i \in DOMAIN summaries |-> item(summaries[i].properties)]

\* parse2_node.py _build_column_records: the copy of build_column_records
\* that reads bbox and intersections from the items of axis_for_columns
parse2_build_column_records(for_columns, ents, sel, eps) ==
    LET records(typed) ==
            [i \in DOMAIN typed |->
                Record("concrete_column", <<"layer:struct-ccol-layer">>, typed[i])]
        collected(cols) ==
            IF cols.raised THEN Raised ELSE Returned(records(assign_column_types(cols.records)))
        detect(layer_set) ==
            IF layer_set = {} THEN Returned(<<>>)
            ELSE collected(column_loop(for_columns, ents, layer_set, eps))
    IN  IF sel = <<>> THEN Returned(<<>>)
        ELSE detect(upper_set(sel_get(sel, "struct-ccol-layer")))

(***************************************************************************)
(* detectors/wall.py                                                       *)
(*                                                                         *)
(* The input catalogues hold axis-aligned segments with even integer       *)
(* coordinates: their lengths, unit directions, projections, distances and *)
(* midpoints are integers, and the operators compute them exactly.         *)
(***************************************************************************)
\* wall.py defaults of build_wall_records
MAX_THICKNESS == 1000

MIN_LENGTH == 500

\* math.sqrt(dx * dx + dy * dy) of an axis-aligned vector
norm(dx, dy) == Abs(dx) + Abs(dy)

\* wall.py _line_direction == (0.0, 0.0), i.e. length < 1e-9
zero_direction(p1, p2) == p1[1] = p2[1] /\ p1[2] = p2[2]

\* wall.py _line_direction of an axis-aligned segment
line_direction(p1, p2) ==
    IF zero_direction(p1, p2) THEN <<0, 0>>
    ELSE <<(p2[1] - p1[1]) \div norm(p2[1] - p1[1], p2[2] - p1[2]),
           (p2[2] - p1[2]) \div norm(p2[1] - p1[1], p2[2] - p1[2])>>

\* wall.py _are_parallel with angle_tol = 0.05: |dir1 . dir2| > 0.95
are_parallel(dir1, dir2) ==
    20 * Abs(dir1[1] * dir2[1] + dir1[2] * dir2[2]) > 19

\* wall.py _perpendicular_distance: |cross| / length of line 1
perpendicular_distance(s1, e1, s2, e2) ==
    LET dx == e1[1] - s1[1]
        dy == e1[2] - s1[2]
        vx == s2[1] - s1[1]
        vy == s2[2] - s1[2]
    IN  Abs(dx * vy - dy * vx) \div norm(dx, dy)

\* wall.py project (88-89, 138-139): projection on the direction of line 1
project_on(p, dir) == p[1] * dir[1] + p[2] * dir[2]

project(p, s1, e1) == project_on(p, line_direction(s1, e1))

\* wall.py _lines_overlap with min_overlap_ratio = 0.3
lines_overlap(s1, e1, s2, e2) ==
    LET ratio_ok(t1_start, t1_end, t2_start, t2_end) ==
            LET overlap == Max2(0, Min2(t1_end, t2_end) - Max2(t1_start, t2_start))
                shorter_length == Min2(t1_end - t1_start, t2_end - t2_start)
            IN  IF shorter_length = 0 THEN FALSE
                ELSE 10 * overlap >= 3 * shorter_length
        ranges(p1, q1, p2, q2) == ratio_ok(Min2(p1, q1), Max2(p1, q1), Min2(p2, q2), Max2(p2, q2))
    IN  IF zero_direction(s1, e1) THEN FALSE
        ELSE ranges(project(s1, s1, e1), project(e1, s1, e1),
                    project(s2, s1, e1), project(e2, s1, e1))

\* point_at_t returning the start of the line whatever t is
point_at_start(start, end, t, t_start, t_end) == start

\* wall.py point_at_t (164-171) for a segment parallel to line 1:
\* start + (t - t_start) / (t_end - t_start) * (end - start)
point_at_t(start, end, t, t_start, t_end) ==
    IF t_end = t_start THEN start
    ELSE <<start[1] + ((t - t_start) * (end[1] - start[1])) \div (t_end - t_start),
           start[2] + ((t - t_start) * (end[2] - start[2])) \div (t_end - t_start)>>

\* wall.py _compute_wall_geometry: none = TRUE for the empty dict
compute_wall_geometry(s1, e1, s2, e2) ==
    LET empty == [none |-> TRUE, thickness |-> 0, length |-> 0,
                  start |-> <<0, 0>>, end |-> <<0, 0>>, direction |-> <<0, 0>>]
        \* 173-191: the centerline between the two lines over the overlap
        centerline(p1_at_start, p1_at_end, p2_at_start, p2_at_end, length, dir) ==
            [none |-> FALSE,
             thickness |-> perpendicular_distance(s1, e1, s2, e2),
             length |-> length,
             start |-> <<(p1_at_start[1] + p2_at_start[1]) \div 2,
                         (p1_at_start[2] + p2_at_start[2]) \div 2>>,
             end |-> <<(p1_at_end[1] + p2_at_end[1]) \div 2,
                       (p1_at_end[2] + p2_at_end[2]) \div 2>>,
             direction |-> dir]
        \* 154-171: the overlap region and the points of both lines at its ends
        region(l1s, l1e, l2s, l2e, t1_start, t1_end, t2_start, t2_end, wall_t_start, wall_t_end, dir) ==
            IF wall_t_end - wall_t_start <= 0 THEN empty
            ELSE centerline(point_at_t(l1s, l1e, wall_t_start, t1_start, t1_end),
                            point_at_t(l1s, l1e, wall_t_end, t1_start, t1_end),
                            point_at_t(l2s, l2e, wall_t_start, t2_start, t2_end),
                            point_at_t(l2s, l2e, wall_t_end, t2_start, t2_end),
                            wall_t_end - wall_t_start, dir)
        \* 141-152: the projections, each line ordered along the direction
        ordered(l1s, l1e, l2s, l2e, t1_start, t1_end, t2_start, t2_end, dir) ==
            region(l1s, l1e, l2s, l2e, t1_start, t1_end, t2_start, t2_end,
                   Max2(t1_start, t2_start), Min2(t1_end, t2_end), dir)
        swapped(swap1, swap2, a1, b1, a2, b2, dir) ==
            ordered(IF swap1 THEN e1 ELSE s1, IF swap1 THEN s1 ELSE e1,
                    IF swap2 THEN e2 ELSE s2, IF swap2 THEN s2 ELSE e2,
                    IF swap1 THEN b1 ELSE a1, IF swap1 THEN a1 ELSE b1,
                    IF swap2 THEN b2 ELSE a2, IF swap2 THEN a2 ELSE b2, dir)
        projected(a1, b1, a2, b2, dir) == swapped(a1 > b1, a2 > b2, a1, b1, a2, b2, dir)
        along(dir) == projected(project_on(s1, dir), project_on(e1, dir),
                                project_on(s2, dir), project_on(e2, dir), dir)
    IN  IF zero_direction(s1, e1) THEN empty
        ELSE along(line_direction(s1, e1))

\* wall.py _extract_line_data: segments [start, end, handle]; the handle of
\* a LINE is <<handle>>, of segment i of a polyline <<handle, i>>
extract_line_data(entity) ==
    LET points == extract_points(entity)
        pts == points.pts
    IN  IF points.raised THEN Raised
        ELSE IF Len(pts) < 2 THEN Returned(<<>>)
        ELSE IF entity.type = T_LINE
        THEN Returned(<<[start |-> pts[1], end |-> pts[2], handle |-> <<entity.handle>>]>>)
        ELSE IF entity.type = T_LWPOLYLINE
        THEN Returned([i \in 1..(Len(pts) - 1) |->
                          [start |-> pts[i], end |-> pts[i + 1],
                           handle |-> <<entity.handle, i - 1>>]])
        ELSE Returned(<<>>)

\* wall.py 265-284: the segments of one layer group, in entity order.
\* group = "struct" selects the `if` branch, "non_struct" the `elif`.
RECURSIVE collect_segments(_, _, _, _, _)
collect_segments(ents, bbox, struct_layers_upper, non_struct_layers_upper, group) ==
    IF ents = <<>> THEN Returned(<<>>)
    ELSE LET ent == Head(ents)
             rest == collect_segments(Tail(ents), bbox, struct_layers_upper,
                                      non_struct_layers_upper, group)
             layer == Upper(ent.layer)
             points == extract_points(ent)
             segments == extract_line_data(ent)
             mine == IF layer \in struct_layers_upper THEN group = "struct"
                     ELSE IF layer \in non_struct_layers_upper THEN group = "non_struct"
                     ELSE FALSE
         IN  IF ent.type \notin {T_LINE, T_LWPOLYLINE} THEN rest
             ELSE IF bbox # <<>> /\ points.raised THEN Raised
             ELSE IF bbox # <<>> /\ points.pts # <<>> /\ ~ points_inside_bbox(points.pts, bbox[1])
             THEN rest
             ELSE IF segments.raised \/ rest.raised THEN Raised
             ELSE IF mine THEN Returned(segments.records \o rest.records)
             ELSE rest

\* the tests of a candidate pair without the distance test of line 320
pair_ok_any_distance(seg1, seg2, max_thickness, min_length) ==
    LET tests(s1, e1, s2, e2) ==
            /\ ~ zero_direction(s2, e2)
            /\ are_parallel(line_direction(s1, e1), line_direction(s2, e2))
            /\ lines_overlap(s1, e1, s2, e2)
            /\ \E geom \in {compute_wall_geometry(s1, e1, s2, e2)} :
                   ~ geom.none /\ ~ (geom.length < min_length)
    IN  tests(seg1.start, seg1.end, seg2.start, seg2.end)

\* the tests of a candidate pair with a distance of exactly 1 rejected too
pair_ok_above_one(seg1, seg2, max_thickness, min_length) ==
    LET tests(s1, e1, s2, e2) ==
            /\ ~ zero_direction(s2, e2)
            /\ are_parallel(line_direction(s1, e1), line_direction(s2, e2))
            /\ \E dist \in {perpendicular_distance(s1, e1, s2, e2)} :
                   ~ (dist > max_thickness \/ dist <= 1)
            /\ lines_overlap(s1, e1, s2, e2)
            /\ \E geom \in {compute_wall_geometry(s1, e1, s2, e2)} :
                   ~ geom.none /\ ~ (geom.length < min_length)
    IN  tests(seg1.start, seg1.end, seg2.start, seg2.end)

\* wall.py 310-330: the tests a candidate pair must pass
pair_ok(seg1, seg2, max_thickness, min_length) ==
    LET tests(s1, e1, s2, e2) ==
            /\ ~ zero_direction(s2, e2)
            /\ are_parallel(line_direction(s1, e1), line_direction(s2, e2))
            /\ \E dist \in {perpendicular_distance(s1, e1, s2, e2)} :
                   ~ (dist > max_thickness \/ dist < 1)
            /\ lines_overlap(s1, e1, s2, e2)
            /\ \E geom \in {compute_wall_geometry(s1, e1, s2, e2)} :
                   ~ geom.none /\ ~ (geom.length < min_length)
    IN  tests(seg1.start, seg1.end, seg2.start, seg2.end)

\* find_walls marking only the outer segment of a pair
mark_used_outer(used, i, j) == used \cup {i}

\* find_walls marking nothing
mark_used_none(used, i, j) == used

\* wall.py 339-340: used[i] = True; used[j] = True
mark_used(used, i, j) == used \cup {i, j}

\* find_walls pairing segment i with the closest segment that passes the
\* tests instead of the first
RECURSIVE find_walls_from_closest(_, _, _, _, _, _)
find_walls_from_closest(segments, wall_type, i, used, max_thickness, min_length) ==
    IF i > Len(segments) THEN <<>>
    ELSE LET distance(j) == perpendicular_distance(segments[i].start, segments[i].end,
                                                   segments[j].start, segments[j].end)
             wall(j, geom) ==
                 [wall_type |-> wall_type,
                  handles |-> <<segments[i].handle, segments[j].handle>>,
                  thickness |-> geom.thickness, length |-> geom.length,
                  start |-> geom.start, end |-> geom.end, direction |-> geom.direction]
             paired(j) ==
                 <<wall(j, compute_wall_geometry(segments[i].start, segments[i].end,
                                                 segments[j].start, segments[j].end))>>
                 \o find_walls_from_closest(segments, wall_type, i + 1, mark_used(used, i, j),
                                            max_thickness, min_length)
             inner(cands) ==
                 IF i \in used \/ zero_direction(segments[i].start, segments[i].end) \/ cands = {}
                 THEN find_walls_from_closest(segments, wall_type, i + 1, used, max_thickness,
                                              min_length)
                 ELSE paired(SetMin({j \in cands :
                                        \A k \in cands : distance(j) <= distance(k)}))
         IN  inner({j \in (i + 1)..Len(segments) :
                       j \notin used /\ pair_ok(segments[i], segments[j], max_thickness, min_length)})

\* wall.py find_walls (288-341): the loop over i with the used flags;
\* returns the walls appended by this call
RECURSIVE find_walls_from(_, _, _, _, _, _)
find_walls_from(segments, wall_type, i, used, max_thickness, min_length) ==
    IF i > Len(segments) THEN <<>>
    ELSE LET \* 331-338: the wall of the pair (i, j)
             wall(j, geom) ==
                 [wall_type |-> wall_type,
                  handles |-> <<segments[i].handle, segments[j].handle>>,
                  thickness |-> geom.thickness, length |-> geom.length,
                  start |-> geom.start, end |-> geom.end, direction |-> geom.direction]
             \* the first j that passes the tests ends the inner loop (341)
             paired(j) ==
                 <<wall(j, compute_wall_geometry(segments[i].start, segments[i].end,
                                                 segments[j].start, segments[j].end))>>
                 \o find_walls_from(segments, wall_type, i + 1, mark_used(used, i, j),
                                    max_thickness, min_length)
             inner(cands) ==
                 IF i \in used \/ zero_direction(segments[i].start, segments[i].end) \/ cands = {}
                 THEN find_walls_from(segments, wall_type, i + 1, used, max_thickness, min_length)
                 ELSE paired(SetMin(cands))
         IN  inner({j \in (i + 1)..Len(segments) :
                       j \notin used /\ pair_ok(segments[i], segments[j], max_thickness, min_length)})

find_walls(segments, wall_type, max_thickness, min_length) ==
    find_walls_from(segments, wall_type, 1, {}, max_thickness, min_length)

\* the box of the last border instead of the first
last_border_bbox(bs) ==
    IF bs # <<>> THEN <<bs[Len(bs)].properties.bbox_world>> ELSE <<>>

\* wall.py 256-259: the world box of the first border, <<>> for None
first_border_bbox(bs) ==
    IF bs # <<>> THEN <<bs[1].properties.bbox_world>> ELSE <<>>

\* wall.py build_wall_records
build_wall_records(bs, ents, sel, max_thickness, min_length) ==
    LET \* 346-364: one record per wall, numbered from 1
        records(found) ==
            [idx \in DOMAIN found |->
                Record(IF found[idx].wall_type = "structural" THEN "structural_wall"
                       ELSE "partition_wall",
                       IF found[idx].wall_type = "structural" THEN <<"layer:struct-cwall-layer">>
                       ELSE <<"layer:non-wall-layer">>,
                       [wall_index |-> idx, handles |-> found[idx].handles,
                        thickness |-> found[idx].thickness, length |-> found[idx].length,
                        start |-> found[idx].start, end |-> found[idx].end,
                        direction |-> found[idx].direction])]
        \* 343-344: structural walls first, then the others
        detect(struct_segments, non_struct_segments) ==
            IF struct_segments.raised \/ non_struct_segments.raised THEN Raised
            ELSE Returned(records(
                     find_walls(struct_segments.records, "structural", max_thickness, min_length)
                     \o find_walls(non_struct_segments.records, "non_structural",
                                   max_thickness, min_length)))
        collect(struct_layers_upper, non_struct_layers_upper, bbox) ==
            IF struct_layers_upper = {} /\ non_struct_layers_upper = {} THEN Returned(<<>>)
            ELSE detect(collect_segments(ents, bbox, struct_layers_upper,
                                         non_struct_layers_upper, "struct"),
                        collect_segments(ents, bbox, struct_layers_upper,
                                         non_struct_layers_upper, "non_struct"))
    IN  IF sel = <<>> THEN Returned(<<>>)
        ELSE collect(upper_set(sel_get(sel, "struct-cwall-layer")),
                     upper_set(sel_get(sel, "non-wall-layer")),
                     first_border_bbox(bs))

(***************************************************************************)
(* geometry.py: polygons.  A point handed to point_in_polygon is a         *)
(* rational [x, y, d] standing for (x / d, y / d), d > 0.                  *)
(***************************************************************************)
RatPoint(p) == [x |-> p[1], y |-> p[2], d |-> 1]

\* the shoelace sum: twice the signed area (geometry.py 303-307, 360-363)
shoelace(vertices) ==
    LET n == Len(vertices)
        cross(i) == vertices[i][1] * vertices[(i % n) + 1][2]
                    - vertices[(i % n) + 1][1] * vertices[i][2]
        RECURSIVE sum(_)
        sum(i) == IF i = 0 THEN 0 ELSE cross(i) + sum(i - 1)
    IN  sum(n)

\* geometry.py polygon_area, doubled to stay in the integers:
\* polygon_area(v) = polygon_area_x2(v) / 2
polygon_area_x2(vertices) == IF Len(vertices) < 3 THEN 0 ELSE Abs(shoelace(vertices))

\* geometry.py point_in_polygon (ray casting)
point_in_polygon(point, vertices) ==
    LET n == Len(vertices)
        crosses(i) ==
            LET j == IF i = 1 THEN n ELSE i - 1
                xi == vertices[i][1]
                yi == vertices[i][2]
                xj == vertices[j][1]
                yj == vertices[j][2]
                lhs == (point.x - xi * point.d) * (yj - yi)
                rhs == (xj - xi) * (point.y - yi * point.d)
            IN  /\ (yi * point.d > point.y) # (yj * point.d > point.y)
                /\ IF yj - yi > 0 THEN lhs < rhs ELSE lhs > rhs
    IN  IF n < 3 THEN FALSE
        ELSE Cardinality({i \in 1..n : crosses(i)}) % 2 = 1

RECURSIVE gcd(_, _)
gcd(a, b) == IF b = 0 THEN Abs(a) ELSE gcd(b, a % Abs(b))

\* the rational point (x / d, y / d) in lowest terms with d > 0
reduced(x, y, d) ==
    LET g == gcd(gcd(x, y), d)
    IN  IF d > 0 THEN [x |-> x \div g, y |-> y \div g, d |-> d \div g]
        ELSE [x |-> (- x) \div g, y |-> (- y) \div g, d |-> (- d) \div g]

\* geometry.py polygon_centroid: <<>> for None, else <<rational point>>
polygon_centroid(vertices) ==
    LET n == Len(vertices)
        cross(i) == vertices[i][1] * vertices[(i % n) + 1][2]
                    - vertices[(i % n) + 1][1] * vertices[i][2]
        RECURSIVE sumx(_), sumy(_), sump(_, _)
        sumx(i) == IF i = 0 THEN 0
                   ELSE (vertices[i][1] + vertices[(i % n) + 1][1]) * cross(i) + sumx(i - 1)
        sumy(i) == IF i = 0 THEN 0
                   ELSE (vertices[i][2] + vertices[(i % n) + 1][2]) * cross(i) + sumy(i - 1)
        sump(i, c) == IF i = 0 THEN 0 ELSE vertices[i][c] + sump(i - 1, c)
        signed_area == shoelace(vertices)
    IN  IF n < 3 THEN <<>>
        ELSE IF signed_area = 0 THEN <<reduced(sump(n, 1), sump(n, 2), n)>>
        ELSE <<reduced(sumx(n), sumy(n), 3 * signed_area)>>

\* tuple comparison (x1, y1) < (x2, y2)
point_less(p, q) == p[1] < q[1] \/ (p[1] = q[1] /\ p[2] < q[2])

(***************************************************************************)
(* detectors/room.py                                                       *)
(***************************************************************************)
\* room.py defaults
ENDPOINT_TOLERANCE == 50

MAX_CYCLE_LENGTH == 20

DEGENERATE_AREA == 100

\* room.py 27-41: endpoint 2k-1 is the start of wall k, endpoint 2k its end
wall_endpoints(ws) ==
    [e \in 1..(2 * Len(ws)) |->
        IF e % 2 = 1 THEN ws[(e + 1) \div 2].properties.start
        ELSE ws[e \div 2].properties.end]

\* geometry.py distance(p, q) <= tolerance, squared
within(p, q, tolerance) ==
    (q[1] - p[1]) * (q[1] - p[1]) + (q[2] - p[2]) * (q[2] - p[2]) <= tolerance * tolerance

\* room.py 61-64: average of a cluster, rounded to 1 unit
cluster_point(endpoints, cluster) ==
    LET RECURSIVE sum(_, _)
        sum(S, c) == IF S = {} THEN 0
                     ELSE LET k == CHOOSE k \in S : TRUE
                          IN  endpoints[k][c] + sum(S \ {k}, c)
    IN  <<round_half_even(sum(cluster, 1), Cardinality(cluster)),
          round_half_even(sum(cluster, 2), Cardinality(cluster))>>

\* the clustering of lines 43-67 without the test of line 52 that an
\* endpoint is not yet used
RECURSIVE merge_endpoints_reused(_, _, _, _, _)
merge_endpoints_reused(endpoints, i, used, merged, tolerance) ==
    IF i > Len(endpoints) THEN merged
    ELSE IF i \in used THEN merge_endpoints_reused(endpoints, i + 1, used, merged, tolerance)
    ELSE LET assign(cluster, pt) ==
                 merge_endpoints_reused(endpoints, i + 1, used \cup cluster,
                                 [k \in DOMAIN merged |-> IF k \in cluster THEN pt ELSE merged[k]],
                                 tolerance)
             gather(cluster) == assign(cluster, cluster_point(endpoints, cluster))
         IN  gather({i} \cup {j \in (i + 1)..Len(endpoints) :
                                 within(endpoints[i], endpoints[j], tolerance)})

\* room.py 43-67: seed i takes every not yet used j > i within tolerance of
\* the seed; returns endpoint index -> merged point
RECURSIVE merge_endpoints(_, _, _, _, _)
merge_endpoints(endpoints, i, used, merged, tolerance) ==
    IF i > Len(endpoints) THEN merged
    ELSE IF i \in used THEN merge_endpoints(endpoints, i + 1, used, merged, tolerance)
    ELSE LET assign(cluster, pt) ==
                 merge_endpoints(endpoints, i + 1, used \cup cluster,
                                 [k \in DOMAIN merged |-> IF k \in cluster THEN pt ELSE merged[k]],
                                 tolerance)
             gather(cluster) == assign(cluster, cluster_point(endpoints, cluster))
         IN  gather({i} \cup {j \in (i + 1)..Len(endpoints) :
                                 j \notin used /\ within(endpoints[i], endpoints[j], tolerance)})

\* room.py 69-95: the adjacency lists; nodes in dict insertion order
RECURSIVE add_wall_edges(_, _, _)
add_wall_edges(merged, idx, graph) ==
    IF 2 * idx > Len(merged) THEN graph
    ELSE LET add_node(nodes, p) == IF p \in Range(nodes) THEN nodes ELSE Append(nodes, p)
             lists(nodes) == [n \in Range(nodes) |->
                                 IF n \in DOMAIN graph.adj THEN graph.adj[n] ELSE <<>>]
             edge(a, b, nodes) ==
                 [nodes |-> nodes,
                  adj |-> [lists(nodes) EXCEPT ![a] = Append(@, <<b, idx - 1>>),
                                               ![b] = Append(@, <<a, idx - 1>>)]]
             add(a, b) ==
                 IF a = b THEN graph ELSE edge(a, b, add_node(add_node(graph.nodes, a), b))
         IN  add_wall_edges(merged, idx + 1, add(merged[2 * idx - 1], merged[2 * idx]))

\* room.py _build_wall_graph
build_wall_graph(ws, tolerance) ==
    LET merge(endpoints) == merge_endpoints(endpoints, 1, {}, endpoints, tolerance)
    IN  add_wall_edges(merge(wall_endpoints(ws)), 1, [nodes |-> <<>>, adj |-> <<>>])

\* room.py 137-139: rotate the cycle to start from its smallest vertex
normalize_cycle(cycle) ==
    LET min_idx == CHOOSE i \in DOMAIN cycle :
                       /\ \A k \in DOMAIN cycle : ~ point_less(cycle[k], cycle[i])
                       /\ \A k \in 1..(i - 1) : cycle[k] # cycle[i]
    IN  SubSeq(cycle, min_idx, Len(cycle)) \o SubSeq(cycle, 1, min_idx - 1)

reverse_seq(s) == [i \in DOMAIN s |-> s[Len(s) + 1 - i]]

\* room.py 136-143: append the normalized cycle unless it, or the reversal
\* of the normalized tuple, is already in found_cycles
record_cycle(found, path) ==
    LET record(normalized) ==
            IF normalized \notin Range(found) /\ reverse_seq(normalized) \notin Range(found)
            THEN Append(found, normalized)
            ELSE found
    IN  record(normalize_cycle(path))

\* the search without the length test of room.py 126-127
RECURSIVE dfs_unbounded(_, _, _, _, _, _)
dfs_unbounded(graph, start, path, path_edges, k, max_cycle_length) ==
    LET visit(current, nbrs) ==
            LET step(neighbor, edge) ==
                    IF edge \in path_edges
                    THEN dfs_unbounded(graph, start, path, path_edges, k + 1, max_cycle_length)
                    ELSE IF neighbor = start /\ Len(path) >= 3
                    THEN <<path>> \o dfs_unbounded(graph, start, path, path_edges, k + 1,
                                                   max_cycle_length)
                    ELSE IF neighbor \in Range(path)
                    THEN dfs_unbounded(graph, start, path, path_edges, k + 1, max_cycle_length)
                    ELSE dfs_unbounded(graph, start, Append(path, neighbor),
                                       path_edges \cup {edge}, 1, max_cycle_length)
                         \o dfs_unbounded(graph, start, path, path_edges, k + 1,
                                          max_cycle_length)
            IN  IF k > Len(nbrs) THEN <<>>
                ELSE step(nbrs[k][1], {current, nbrs[k][1]})
    IN  visit(path[Len(path)], graph.adj[path[Len(path)]])

\* room.py dfs (120-151): the cycles met by the loop over the neighbours
\* of the last node of path, from position k on, in the order they are met.
\* The search never reads found_cycles, so the cycles are gathered first and
\* recorded (136-143) afterwards, in the same order.
RECURSIVE dfs(_, _, _, _, _, _)
dfs(graph, start, path, path_edges, k, max_cycle_length) ==
    LET visit(current, nbrs) ==
            LET step(neighbor, edge) ==
                    IF edge \in path_edges
                    THEN dfs(graph, start, path, path_edges, k + 1, max_cycle_length)
                    ELSE IF neighbor = start /\ Len(path) >= 3
                    THEN <<path>> \o dfs(graph, start, path, path_edges, k + 1, max_cycle_length)
                    ELSE IF neighbor \in Range(path)
                    THEN dfs(graph, start, path, path_edges, k + 1, max_cycle_length)
                    ELSE dfs(graph, start, Append(path, neighbor), path_edges \cup {edge}, 1,
                             max_cycle_length)
                         \o dfs(graph, start, path, path_edges, k + 1, max_cycle_length)
            IN  IF k > Len(nbrs) THEN <<>>
                ELSE step(nbrs[k][1], {current, nbrs[k][1]})
    IN  IF Len(path) > max_cycle_length THEN <<>>
        ELSE visit(path[Len(path)], graph.adj[path[Len(path)]])

\* room.py 153-155: a DFS from every node, in node order
RECURSIVE find_cycles_from(_, _, _)
find_cycles_from(graph, n, max_cycle_length) ==
    IF n > Len(graph.nodes) THEN <<>>
    ELSE dfs(graph, graph.nodes[n], <<graph.nodes[n]>>, {}, 1, max_cycle_length)
         \o find_cycles_from(graph, n + 1, max_cycle_length)

\* found_cycles after recording, in the order met, the cycles lo..hi of met
\* (the range is halved to keep the evaluation shallow)
RECURSIVE record_cycles(_, _, _, _)
record_cycles(found, met, lo, hi) ==
    IF lo > hi THEN found
    ELSE IF lo = hi THEN record_cycle(found, met[lo])
    ELSE LET rest(left) == IF Len(left) >= 0
                           THEN record_cycles(left, met, (lo + hi) \div 2 + 1, hi)
                           ELSE left
         IN  rest(record_cycles(found, met, lo, (lo + hi) \div 2))

\* room.py _find_minimal_cycles
find_minimal_cycles(graph, max_cycle_length) ==
    LET recorded(met) == record_cycles(<<>>, met, 1, Len(met))
    IN  recorded(find_cycles_from(graph, 1, max_cycle_length))

\* room.py 173-174: stable sort of the cycles by area
RECURSIVE insert_by_area(_, _)
insert_by_area(sorted, cycle) ==
    IF sorted = <<>> THEN <<cycle>>
    ELSE IF polygon_area_x2(cycle) < polygon_area_x2(Head(sorted))
         THEN <<cycle>> \o sorted
         ELSE <<Head(sorted)>> \o insert_by_area(Tail(sorted), cycle)

RECURSIVE sort_by_area(_)
sort_by_area(cycles) ==
    IF cycles = <<>> THEN <<>>
    ELSE insert_by_area(sort_by_area(SubSeq(cycles, 1, Len(cycles) - 1)), cycles[Len(cycles)])

\* the acceptance loop without the test of the area of line 179
RECURSIVE accept_cycles_degenerate(_, _)
accept_cycles_degenerate(sorted, minimal) ==
    IF sorted = <<>> THEN minimal
    ELSE LET check(cycle, centroid) ==
                 IF centroid = <<>> THEN minimal
                 ELSE IF \E e \in DOMAIN minimal : point_in_polygon(centroid[1], minimal[e])
                 THEN minimal
                 ELSE Append(minimal, cycle)
         IN  accept_cycles_degenerate(Tail(sorted),
                                      check(Head(sorted), polygon_centroid(Head(sorted))))

\* the acceptance loop without the test of the centroid of lines 186-191
RECURSIVE accept_cycles_nested(_, _)
accept_cycles_nested(sorted, minimal) ==
    IF sorted = <<>> THEN minimal
    ELSE LET check(cycle, centroid) ==
                 IF polygon_area_x2(cycle) < 2 * DEGENERATE_AREA THEN minimal
                 ELSE IF centroid = <<>> THEN minimal
                 ELSE Append(minimal, cycle)
         IN  accept_cycles_nested(Tail(sorted),
                                  check(Head(sorted), polygon_centroid(Head(sorted))))

\* room.py 178-194: the acceptance loop
RECURSIVE accept_cycles(_, _)
accept_cycles(sorted, minimal) ==
    IF sorted = <<>> THEN minimal
    ELSE LET check(cycle, centroid) ==
                 IF polygon_area_x2(cycle) < 2 * DEGENERATE_AREA THEN minimal
                 ELSE IF centroid = <<>> THEN minimal
                 ELSE IF \E e \in DOMAIN minimal : point_in_polygon(centroid[1], minimal[e])
                 THEN minimal
                 ELSE Append(minimal, cycle)
         IN  accept_cycles(Tail(sorted), check(Head(sorted), polygon_centroid(Head(sorted))))

\* room.py _filter_minimal_cycles
filter_minimal_cycles(cycles) == accept_cycles(sort_by_area(cycles), <<>>)

\* room.py 259-267: the (position, text) pairs of the TEXT entities;
\* text.strip() of the modelled texts is the text itself
text_entities(ents) ==
    SelectSeq(ents, LAMBDA e : /\ e.type = T_TEXT
                               /\ e.text # <<>>
                               /\ e.position # <<>>
                               /\ IsNum(e.position[1]) /\ IsNum(e.position[2]))

\* room.py 288: txt without ".", ",", "-" is all digits
is_numeric_text(txt) ==
    LET kept == SelectSeq(txt, LAMBDA c : c \notin {".", ",", "-"})
    IN  kept # <<>> /\ \A i \in DOMAIN kept :
            kept[i] \in {"0", "1", "2", "3", "4", "5", "6", "7", "8", "9"}

\* room.py 283-292: first non-numeric text, else the first text, else None
room_name(room_texts) ==
    IF room_texts = <<>> THEN <<>>
    ELSE IF \E i \in DOMAIN room_texts : ~ is_numeric_text(room_texts[i])
    THEN <<room_texts[SetMin({i \in DOMAIN room_texts : ~ is_numeric_text(room_texts[i])})]>>
    ELSE <<room_texts[1]>>

\* room.py build_room_records; area is kept doubled (area_x2) and the
\* centroid as the exact rational
build_room_records(ws, ents, endpoint_tolerance) ==
    LET \* 273-281: the texts of the TEXT entities inside the cycle
        room_texts(cycle, texts) ==
            LET texts_of(inside) == [i \in DOMAIN inside |-> inside[i].text]
            IN  texts_of(SelectSeq(texts, LAMBDA e : point_in_polygon(RatPoint(e.position), cycle)))
        \* 294-323
        room(idx, cycle, texts_inside) ==
            Record("room", <<"wall_enclosure">>,
                   [room_index |-> idx,
                    name |-> room_name(texts_inside),
                    area_x2 |-> polygon_area_x2(cycle),
                    centroid |-> polygon_centroid(cycle),
                    vertices |-> cycle,
                    vertex_count |-> Len(cycle),
                    texts_inside |-> texts_inside])
        records(minimal_cycles, texts) ==
            [idx \in DOMAIN minimal_cycles |->
                room(idx, minimal_cycles[idx], room_texts(minimal_cycles[idx], texts))]
        detect(graph) ==
            IF graph.nodes = <<>> THEN Returned(<<>>)
            ELSE Returned(records(
                     filter_minimal_cycles(find_minimal_cycles(graph, MAX_CYCLE_LENGTH)),
                     text_entities(ents)))
    IN  IF ws = <<>> THEN Returned(<<>>)
        ELSE detect(build_wall_graph(ws, endpoint_tolerance))

(***************************************************************************)
(* detectors/door.py                                                       *)
(***************************************************************************)
\* door.py defaults
MAX_WALL_DISTANCE == 500

SEARCH_OFFSET == 300

DEFAULT_DOOR_WIDTH == 900

\* sum of coordinate c of a list of points
RECURSIVE coord_sum(_, _)
coord_sum(pts, c) == IF pts = <<>> THEN 0 ELSE Head(pts)[c] + coord_sum(Tail(pts), c)

\* door.py _get_entity_center: none = TRUE for None.  The mean of the
\* points of a LINE / LWPOLYLINE is exact on the input catalogue.
get_entity_center(entity) ==
    LET dtype == entity.type
        numeric(p) == p # <<>> /\ IsNum(p[1]) /\ IsNum(p[2])
        circle_center == IF entity.center # <<>> THEN entity.center ELSE entity.position
        points == extract_points(entity)
        nothing == [raised |-> FALSE, none |-> TRUE, center |-> <<0, 0>>]
        found(p) == [raised |-> FALSE, none |-> FALSE, center |-> p]
    IN  IF dtype = T_ARC /\ numeric(entity.center) THEN found(entity.center)
        ELSE IF dtype = T_CIRCLE /\ numeric(circle_center) THEN found(circle_center)
        ELSE IF dtype = T_INSERT /\ numeric(entity.position) THEN found(entity.position)
        ELSE IF dtype \in {T_LINE, T_LWPOLYLINE}
        THEN IF points.raised THEN [nothing EXCEPT !.raised = TRUE]
             ELSE IF points.pts # <<>>
             THEN found(<<coord_sum(points.pts, 1) \div Len(points.pts),
                          coord_sum(points.pts, 2) \div Len(points.pts)>>)
             ELSE nothing
        ELSE nothing

\* door.py _get_entity_width (the length of a LINE is that of an
\* axis-aligned segment)
get_entity_width(entity) ==
    LET dtype == entity.type
        pts == extract_points(entity).pts
        xs == {pts[i][1] : i \in DOMAIN pts}
        ys == {pts[i][2] : i \in DOMAIN pts}
    IN  IF dtype = T_ARC /\ IsNum(entity.radius) THEN entity.radius
        ELSE IF dtype = T_LINE /\ Len(pts) >= 2
        THEN norm(pts[2][1] - pts[1][1], pts[2][2] - pts[1][2])
        ELSE IF dtype = T_LWPOLYLINE /\ pts # <<>>
        THEN Max2(SetMax(xs) - SetMin(xs), SetMax(ys) - SetMin(ys))
        ELSE DEFAULT_DOOR_WIDTH

\* door.py _point_to_segment_distance, squared, for an axis-aligned
\* segment: t * (dx, dy) is the projection on the unit direction clamped
\* to [0, length]
point_to_segment_distance_sq(point, seg_start, seg_end) ==
    LET u == line_direction(seg_start, seg_end)
        length == norm(seg_end[1] - seg_start[1], seg_end[2] - seg_start[2])
        px == point[1] - seg_start[1]
        py == point[2] - seg_start[2]
        along == Max2(0, Min2(length, px * u[1] + py * u[2]))
        vx == px - along * u[1]
        vy == py - along * u[2]
    IN  vx * vx + vy * vy

\* door.py _find_nearest_wall: 0 for None, else the position of the wall;
\* a later wall replaces the best one only when strictly closer
RECURSIVE find_nearest_wall_from(_, _, _, _, _)
find_nearest_wall_from(door_center, ws, k, best, max_distance) ==
    IF k > Len(ws) THEN best
    ELSE LET dist == point_to_segment_distance_sq(door_center, ws[k].properties.start,
                                                  ws[k].properties.end)
             best_dist == point_to_segment_distance_sq(door_center, ws[best].properties.start,
                                                       ws[best].properties.end)
             in_range == dist <= max_distance * max_distance
         IN  IF in_range /\ (best = 0 \/ dist < best_dist)
             THEN find_nearest_wall_from(door_center, ws, k + 1, k, max_distance)
             ELSE find_nearest_wall_from(door_center, ws, k + 1, best, max_distance)

find_nearest_wall(door_center, ws, max_distance) ==
    find_nearest_wall_from(door_center, ws, 1, 0, max_distance)

\* _find_adjacent_rooms testing the point on one side of the wall only
find_adjacent_rooms_one_side(door_center, wall, rs, search_offset) ==
    LET nx == - wall.properties.direction[2]
        ny == wall.properties.direction[1]
        offset == (wall.properties.thickness \div 2) + search_offset
        test_point1 == <<door_center[1] + nx * offset, door_center[2] + ny * offset>>
    IN  SelectSeq(rs, LAMBDA room :
            /\ room.properties.vertices # <<>>
            /\ point_in_polygon(RatPoint(test_point1), room.properties.vertices))

\* door.py _find_adjacent_rooms: the rooms, in list order, whose polygon
\* contains one of the two test points
find_adjacent_rooms(door_center, wall, rs, search_offset) ==
    LET nx == - wall.properties.direction[2]
        ny == wall.properties.direction[1]
        offset == (wall.properties.thickness \div 2) + search_offset
        test_point1 == <<door_center[1] + nx * offset, door_center[2] + ny * offset>>
        test_point2 == <<door_center[1] - nx * offset, door_center[2] - ny * offset>>
    IN  SelectSeq(rs, LAMBDA room :
            /\ room.properties.vertices # <<>>
            /\ \/ point_in_polygon(RatPoint(test_point1), room.properties.vertices)
               \/ point_in_polygon(RatPoint(test_point2), room.properties.vertices))

\* door.py 234-250: the door entities, in entity order
RECURSIVE door_entities(_, _)
door_entities(ents, door_layers_upper) ==
    IF ents = <<>> THEN Returned(<<>>)
    ELSE LET ent == Head(ents)
             rest == door_entities(Tail(ents), door_layers_upper)
             center == get_entity_center(ent)
         IN  IF Upper(ent.layer) \notin door_layers_upper THEN rest
             ELSE IF center.raised \/ rest.raised THEN Raised
             ELSE IF center.none THEN rest
             ELSE Returned(<<[entity |-> ent, center |-> center.center,
                              width |-> get_entity_width(ent)]>> \o rest.records)

\* door.py 263-298: the wall and the room indices of one door
door_room_indices(door_data, ws, rs) ==
    LET indices(adjacent) == [i \in DOMAIN adjacent |-> adjacent[i].properties.room_index]
        rooms_at(w) ==
            IF w = 0 THEN <<>>
            ELSE indices(find_adjacent_rooms(door_data.center, ws[w], rs, SEARCH_OFFSET))
    IN  rooms_at(find_nearest_wall(door_data.center, ws, MAX_WALL_DISTANCE))

\* door.py 288-295: room_connections after one more door; the dict is the
\* key list in insertion order and the map key -> set
update_connections(conn, room_indices) ==
    LET new_keys == SelectSeq(room_indices, LAMBDA r : r \notin Range(conn.keys))
        RECURSIVE dedup(_)
        dedup(q) == IF q = <<>> THEN <<>>
                    ELSE IF q[Len(q)] \in Range(SubSeq(q, 1, Len(q) - 1))
                    THEN dedup(SubSeq(q, 1, Len(q) - 1))
                    ELSE Append(dedup(SubSeq(q, 1, Len(q) - 1)), q[Len(q)])
        keys == conn.keys \o dedup(new_keys)
        others(ri) == {room_indices[j] : j \in {j \in DOMAIN room_indices :
                                                  \E i \in DOMAIN room_indices :
                                                      i # j /\ room_indices[i] = ri}}
    IN  IF Len(room_indices) < 2 THEN conn
        ELSE [keys |-> keys,
              map |-> [ri \in Range(keys) |->
                          (IF ri \in DOMAIN conn.map THEN conn.map[ri] ELSE {})
                          \cup (IF ri \in Range(room_indices) THEN others(ri) ELSE {})]]

\* iteration over a set of small ints: ascending (CPython)
RECURSIVE ascending(_)
ascending(S) == IF S = {} THEN <<>> ELSE <<SetMin(S)>> \o ascending(S \ {SetMin(S)})

\* the edge list without the test against seen_edges of line 327
unique_edges_all(pairs, seen) == pairs

\* door.py 322-330: the edge list, first occurrence of each sorted pair
RECURSIVE unique_edges(_, _)
unique_edges(pairs, seen) ==
    IF pairs = <<>> THEN <<>>
    ELSE IF Head(pairs) \in seen THEN unique_edges(Tail(pairs), seen)
    ELSE <<Head(pairs)>> \o unique_edges(Tail(pairs), seen \cup {Head(pairs)})

connectivity_edges(conn) ==
    unique_edges(Concat([k \in DOMAIN conn.keys |->
                    [m \in DOMAIN ascending(conn.map[conn.keys[k]]) |->
                        <<Min2(conn.keys[k], ascending(conn.map[conn.keys[k]])[m]),
                          Max2(conn.keys[k], ascending(conn.map[conn.keys[k]])[m])>>]]),
                 {})

RECURSIVE connections_after(_, _, _, _)
connections_after(doors_data, k, ws, rs) ==
    IF k = 0 THEN [keys |-> <<>>, map |-> <<>>]
    ELSE update_connections(connections_after(doors_data, k - 1, ws, rs),
                            door_room_indices(doors_data[k], ws, rs))

\* door.py build_door_records
build_door_records(ws, rs, ents, sel) ==
    LET \* 297-315
        door_record(idx, door_data, w) ==
            Record("door", <<"layer:non-door-layer">>,
                   [door_index |-> idx, center |-> door_data.center, width |-> door_data.width,
                    entity_type |-> door_data.entity.type,
                    entity_handle |-> door_data.entity.handle,
                    wall |-> IF w = 0 THEN <<>> ELSE <<ws[w].properties.wall_index>>,
                    connects_rooms |-> door_room_indices(door_data, ws, rs)])
        \* 317-342
        summary(conn, door_count) ==
            IF conn.keys = <<>> THEN <<>>
            ELSE <<Record("room_connectivity", <<"door_analysis">>,
                          [edges |-> connectivity_edges(conn),
                           room_count |-> Len(conn.keys),
                           door_count |-> door_count])>>
        records(dd) ==
            IF dd = <<>> THEN Returned(<<>>)
            ELSE Returned([idx \in DOMAIN dd |->
                              door_record(idx, dd[idx],
                                          find_nearest_wall(dd[idx].center, ws, MAX_WALL_DISTANCE))]
                          \o summary(connections_after(dd, Len(dd), ws, rs), Len(dd)))
        collected(found) == IF found.raised THEN Raised ELSE records(found.records)
        detect(door_layers_upper) ==
            IF door_layers_upper = {} THEN Returned(<<>>)
            ELSE collected(door_entities(ents, door_layers_upper))
    IN  IF sel = <<>> THEN Returned(<<>>)
        ELSE detect(upper_set(sel_get(sel, "non-door-layer")))

(***************************************************************************)
(* builder.py                                                              *)
(***************************************************************************)
\* builder.py build_semantic_records
RECURSIVE build_semantic_records(_, _)
build_semantic_records(ents, rs) ==
    IF ents = <<>> THEN <<>>
    ELSE LET m == match_rule(Head(ents), rs)
         IN  IF m[1] = None
             THEN build_semantic_records(Tail(ents), rs)
             ELSE <<Record(m[1], m[2], Head(ents))>> \o build_semantic_records(Tail(ents), rs)

\* the return expression with the lists in the order the detectors are named
\* by the pipeline description (wall before column)
concat_records_wall_first(basic, bs, summaries, cols, ws, rs) ==
    basic \o bs \o summaries \o ws \o cols \o rs

\* builder.py 75: the return expression of build_all_records
concat_records(basic, bs, summaries, cols, ws, rs) ==
    basic \o bs \o summaries \o cols \o ws \o rs

(***************************************************************************)
(* Bounds and input catalogues                                             *)
(***************************************************************************)
\* most entities of a drawing handed to the builder
MaxEnts == 6

\* most entities of a drawing handed to the wall detector alone
MaxWallEnts == 3

\* most rules of a caller-supplied rule list
MaxRules == 2

L_w == Str1("w")

L_W == Str1("W")

L_x == Str1("x")

L_c == Str1("c")

L_d == Str1("d")

L_s == Str1("s")

L_0 == Str1("0")

B_t == Str1("t")

B_T == Str1("T")

Rect(x0, y0, x1, y1) == << <<x0, y0>>, <<x1, y0>>, <<x1, y1>>, <<x0, y1>>, <<x0, y0>> >>

\* the entities a drawing of the builder runs is made of; the handle of an
\* entity is its position in the catalogue (handles are unique in a drawing)
BuilderCatalog == <<
    Insert(L_0, 1, B_T, <<0, 0>>),
    Line(L_x, 2, <<0, -600>>, <<0, 600>>),
    Line(L_x, 3, <<-600, 0>>, <<600, 0>>),
    Circle(L_c, 4, <<0, 0>>, 300),
    Polyline(L_w, 5, Rect(-600, -600, 600, 600)),
    Polyline(L_W, 6, Rect(-560, -560, 560, 560)),
    LineSE(L_w, 7, <<NonNumeric, 0>>, <<600, 0>>),
    Circle(L_d, 8, <<0, -580>>, 450),
    Insert(L_0, 9, <<>>, <<0, 0>>),
    Line(L_w, 10, <<0, 0>>, <<NonNumeric, 0>>) >>

\* the block library: the title block "T" and a block with an empty name
BuilderBlocks == <<
    [name |-> B_T, entities |-> <<Polyline(L_0, 0, Rect(-700, -700, 700, 700))>>],
    [name |-> <<>>, entities |-> <<Polyline(L_0, 0, Rect(-100, -100, 100, 100))>>] >>

Item(key, values) == [key |-> key, values |-> values]

SEL_FULL == <<Item("basic-border-block", <<B_t>>), Item("struct-axis-layer", <<L_x>>),
              Item("struct-ccol-layer", <<L_c>>), Item("non-wall-layer", <<L_w>>),
              Item("non-door-layer", <<L_d>>)>>

\* every key present, none with a non-empty value
SEL_BLANK == <<Item("basic-border-block", << <<>> >>), Item("struct-axis-layer", << <<>> >>),
               Item("struct-ccol-layer", <<>>), Item("struct-cwall-layer", << <<>>, <<>> >>),
               Item("non-wall-layer", << <<>> >>), Item("non-door-layer", << <<>> >>)>>

SEL_STRUCT == <<Item("struct-cwall-layer", <<L_W>>), Item("non-door-layer", <<L_d>>)>>

\* a border and walls, no key for the axis, column and door detectors
SEL_BORDER_WALL == <<Item("basic-border-block", <<B_T>>), Item("non-wall-layer", <<L_w>>)>>

\* None / {} , and the maps above
BuilderSelections == {<<>>, SEL_FULL, SEL_BLANK, SEL_STRUCT, SEL_BORDER_WALL}

\* the list of the elements of a catalogue whose positions are in S
RECURSIVE pick(_, _)
pick(catalog, S) ==
    IF catalog = <<>> THEN <<>>
    ELSE (IF Len(catalog) \in S THEN pick(SubSeq(catalog, 1, Len(catalog) - 1), S)
                                     \o <<catalog[Len(catalog)]>>
          ELSE pick(SubSeq(catalog, 1, Len(catalog) - 1), S))

BuilderDrawings ==
    {pick(BuilderCatalog, S) : S \in {T \in SUBSET DOMAIN BuilderCatalog : Cardinality(T) <= MaxEnts}}

\* parse2_node.py 551: rules or _rules_from_selections(selections) or DEFAULT_RULES
effective_rules(rs, sel) ==
    IF rs # <<>> THEN rs
    ELSE IF rules_from_selections(sel).rules # <<>> THEN rules_from_selections(sel).rules
    ELSE DEFAULT_RULES

(***************************************************************************)
(* The builder run: build_all_records, one step per call it makes          *)
(***************************************************************************)
Init ==
    /\ pc = "basic"
    /\ entities \in BuilderDrawings
    /\ blocks \in {<<>>, BuilderBlocks}
    /\ selections \in BuilderSelections
    /\ rules = effective_rules(<<>>, selections)
    /\ basic_records = <<>>
    /\ borders = <<>>
    /\ axis_summaries = <<>>
    /\ columns = <<>>
    /\ walls = <<>>
    /\ rooms = <<>>
    /\ doors = <<>>
    /\ out = <<>>
    /\ result = <<>>

\* builder.py 66
BuildSemanticRecords ==
    /\ pc = "basic"
    /\ basic_records' = build_semantic_records(entities, rules)
    /\ pc' = "border"
    /\ UNCHANGED <<entities, blocks, selections, rules, borders, axis_summaries, columns,
                   walls, rooms, doors, out, result>>

\* builder.py 69
BuildBorderRecords ==
    /\ pc = "border"
    /\ \E r \in {build_border_records(blocks, entities, selections)} :
           /\ pc' = IF r.raised THEN "raised_in_border" ELSE "axis"
           /\ borders' = r.records
    /\ UNCHANGED <<entities, blocks, selections, rules, basic_records, axis_summaries, columns,
                   walls, rooms, doors, out, result>>

\* builder.py 70
BuildAxisSummaryRecords ==
    /\ pc = "axis"
    /\ \E r \in {build_axis_summary_records(borders, entities, selections)} :
           /\ pc' = IF r.raised THEN "raised_in_axis" ELSE "column"
           /\ axis_summaries' = r.records
    /\ UNCHANGED <<entities, blocks, selections, rules, basic_records, borders, columns,
                   walls, rooms, doors, out, result>>

\* builder.py 71
BuildColumnRecords ==
    /\ pc = "column"
    /\ \E r \in {build_column_records(axis_summaries, entities, selections)} :
           /\ pc' = IF r.raised THEN "raised_in_column" ELSE "wall"
           /\ columns' = r.records
    /\ UNCHANGED <<entities, blocks, selections, rules, basic_records, borders, axis_summaries,
                   walls, rooms, doors, out, result>>

\* builder.py 72
BuildWallRecords ==
    /\ pc = "wall"
    /\ \E r \in {build_wall_records(borders, entities, selections, MAX_THICKNESS, MIN_LENGTH)} :
           /\ pc' = IF r.raised THEN "raised_in_wall" ELSE "room"
           /\ walls' = r.records
    /\ UNCHANGED <<entities, blocks, selections, rules, basic_records, borders, axis_summaries,
                   columns, rooms, doors, out, result>>

\* builder.py 73
BuildRoomRecords ==
    /\ pc = "room"
    /\ \E r \in {build_room_records(walls, entities, ENDPOINT_TOLERANCE)} :
           /\ pc' = IF r.raised THEN "raised_in_room" ELSE "rooms_done"
           /\ rooms' = r.records
    /\ UNCHANGED <<entities, blocks, selections, rules, basic_records, borders, axis_summaries,
                   columns, walls, doors, out, result>>

\* builder.py 75
ReturnRecords ==
    /\ pc = "rooms_done"
    /\ out' = concat_records(basic_records, borders, axis_summaries, columns, walls, rooms)
    /\ pc' = "done"
    /\ UNCHANGED <<entities, blocks, selections, rules, basic_records, borders, axis_summaries,
                   columns, walls, rooms, doors, result>>

Next ==
    \/ BuildSemanticRecords
    \/ BuildBorderRecords
    \/ BuildAxisSummaryRecords
    \/ BuildColumnRecords
    \/ BuildWallRecords
    \/ BuildRoomRecords
    \/ ReturnRecords

Spec == Init /\ [][Next]_vars

(***************************************************************************)
(* The builder run followed by the persistence adapter                     *)
(***************************************************************************)
\* json.dumps(properties): a str that holds the JSON text of the properties
json_dumps(properties) == [json |-> properties]

\* db_adapter.py 89-93: the loop over the records handed in; the dicts of
\* the caller's list are assigned to, no copy is made
save_semantic_objects(records) ==
    [i \in DOMAIN records |-> [records[i] EXCEPT !.properties = json_dumps(@)]]

\* db_adapter.py save_semantic_objects (parse2_node.py 613-618 is the same
\* loop), called with the list build_all_records returned
SaveSemanticObjects ==
    /\ pc = "done"
    /\ out' = save_semantic_objects(out)
    /\ pc' = "saved"
    /\ UNCHANGED <<entities, blocks, selections, rules, basic_records, borders, axis_summaries,
                   columns, walls, rooms, doors, result>>

NextSave ==
    \/ BuildSemanticRecords
    \/ BuildBorderRecords
    \/ BuildAxisSummaryRecords
    \/ BuildColumnRecords
    \/ BuildWallRecords
    \/ BuildRoomRecords
    \/ ReturnRecords
    \/ SaveSemanticObjects

SpecSave == Init /\ [][NextSave]_vars

(***************************************************************************)
(* The detectors run one by one by a caller of the detectors package, in   *)
(* dependency order, the door detector last                                *)
(***************************************************************************)
InitDetectors ==
    /\ pc = "border"
    /\ entities \in BuilderDrawings
    /\ blocks \in {<<>>, BuilderBlocks}
    /\ selections \in BuilderSelections
    /\ rules = <<>>
    /\ basic_records = <<>>
    /\ borders = <<>>
    /\ axis_summaries = <<>>
    /\ columns = <<>>
    /\ walls = <<>>
    /\ rooms = <<>>
    /\ doors = <<>>
    /\ out = <<>>
    /\ result = <<>>

\* door.py build_door_records, called with the walls and rooms found
BuildDoorRecords ==
    /\ pc = "rooms_done"
    /\ \E r \in {build_door_records(walls, rooms, entities, selections)} :
           /\ pc' = IF r.raised THEN "raised_in_door" ELSE "doors_done"
           /\ doors' = r.records
    /\ UNCHANGED <<entities, blocks, selections, rules, basic_records, borders, axis_summaries,
                   columns, walls, rooms, out, result>>

NextDetectors ==
    \/ BuildBorderRecords
    \/ BuildAxisSummaryRecords
    \/ BuildColumnRecords
    \/ BuildWallRecords
    \/ BuildRoomRecords
    \/ BuildDoorRecords

SpecDetectors == InitDetectors /\ [][NextDetectors]_vars

(***************************************************************************)
(* The wall detector alone, on drawings of lines and polylines in any      *)
(* order                                                                   *)
(***************************************************************************)
WallCatalog == <<
    Line(L_w, 1, <<0, 0>>, <<1000, 0>>),
    Line(L_w, 2, <<0, 200>>, <<1000, 200>>),
    Line(L_w, 3, <<1000, 400>>, <<0, 400>>),
    Polyline(L_w, 4, Rect(0, 600, 1000, 1400)),
    Line(L_s, 5, <<0, 100>>, <<1000, 100>>),
    Line(L_w, 6, <<0, 300>>, <<300, 300>>),
    Line(L_W, 7, <<1200, 500>>, <<1200, 1500>>) >>

SEL_WALLS == <<Item("struct-cwall-layer", <<L_s>>), Item("non-wall-layer", <<L_w>>)>>

\* the orders a list of n elements can be put in
Reorderings(n) == {p \in [1..n -> 1..n] : \A i, j \in 1..n : i # j => p[i] # p[j]}

\* the lists of at most n distinct positions of a catalogue
Arrangements(catalog, n) ==
    {s \in UNION {[1..k -> DOMAIN catalog] : k \in 0..n} :
        \A i, j \in DOMAIN s : i # j => s[i] # s[j]}

WallDrawings ==
    {[i \in DOMAIN s |-> WallCatalog[s[i]]] : s \in Arrangements(WallCatalog, MaxWallEnts)}

\* two parallel lines of one length on one wall layer, a distance apart:
\* along x or along y, each drawn in either direction, in either order
PairLengths == {400, 500, 1000}

\* (at the odd distance 1 the half-unit coordinate of the centerline is
\* kept as its floor; thickness and length are exact)
PairDistances == {0, 1, 2, 200, 1000, 1200}

PairSegment(len, off, vertical, flip) ==
    LET a == IF vertical THEN <<off, 0>> ELSE <<0, off>>
        b == IF vertical THEN <<off, len>> ELSE <<len, off>>
    IN  IF flip THEN <<b, a>> ELSE <<a, b>>

PairDrawings ==
    {<<Line(c.layer, 1, PairSegment(c.len, IF c.swap THEN c.d ELSE 0, c.vertical, c.flip1)[1],
                        PairSegment(c.len, IF c.swap THEN c.d ELSE 0, c.vertical, c.flip1)[2]),
       Line(c.layer, 2, PairSegment(c.len, IF c.swap THEN 0 ELSE c.d, c.vertical, c.flip2)[1],
                        PairSegment(c.len, IF c.swap THEN 0 ELSE c.d, c.vertical, c.flip2)[2])>> :
        c \in [len : PairLengths, d : PairDistances, vertical : BOOLEAN, flip1 : BOOLEAN,
               flip2 : BOOLEAN, swap : BOOLEAN, layer : {L_w, L_s}]}

InitWall ==
    /\ pc = "wall"
    /\ entities \in WallDrawings \cup PairDrawings
    /\ blocks = <<>>
    /\ selections = SEL_WALLS
    /\ rules = <<>>
    /\ basic_records = <<>>
    /\ borders = <<>>
    /\ axis_summaries = <<>>
    /\ columns = <<>>
    /\ walls = <<>>
    /\ rooms = <<>>
    /\ doors = <<>>
    /\ out = <<>>
    /\ result = <<>>

NextWall == BuildWallRecords

SpecWall == InitWall /\ [][NextWall]_vars

(***************************************************************************)
(* The wall, room and door detectors on floor plans: rectangular           *)
(* enclosures drawn as an outer and an inner outline, rows of square rooms *)
(* that share walls, with door entities on and off the shared walls, and a *)
(* plan of three collinear walls                                           *)
(***************************************************************************)
\* most door entities of a plan
MaxDoors == 2

\* the two lines of a wall drawn around the centerline from p to q, each
\* `half` away from it; handles h and h + 1
WallLines(h, p, q, half) ==
    IF p[2] = q[2]
    THEN <<Line(L_w, h, <<p[1], p[2] - half>>, <<q[1], q[2] - half>>),
           Line(L_w, h + 1, <<p[1], p[2] + half>>, <<q[1], q[2] + half>>)>>
    ELSE <<Line(L_w, h, <<p[1] - half, p[2]>>, <<q[1] - half, q[2]>>),
           Line(L_w, h + 1, <<p[1] + half, p[2]>>, <<q[1] + half, q[2]>>)>>

\* the lines of the walls with the given centerlines, wall by wall
PlanLines(centerlines, half) ==
    Concat([k \in DOMAIN centerlines |->
               WallLines(2 * k - 1, centerlines[k][1], centerlines[k][2], half)])

\* side of a room of a row, and half the thickness of its walls
RoomSide == 600

HalfWall == 10

\* the numbers of rooms of the rows
RowSizes == {2, 3}

\* x of the k-th cross wall of a row of n rooms centred on the origin, k in 0..n
CrossWallX(n, k) == k * RoomSide - (n * RoomSide) \div 2

\* centerlines of a row of n rooms: per room the bottom and the top wall,
\* then the n + 1 cross walls
RowCenterlines(n) ==
    Concat([k \in 1..n |->
               << << <<CrossWallX(n, k - 1), -(RoomSide \div 2)>>,
                     <<CrossWallX(n, k), -(RoomSide \div 2)>> >>,
                  << <<CrossWallX(n, k - 1), RoomSide \div 2>>,
                     <<CrossWallX(n, k), RoomSide \div 2>> >> >>])
    \o [k \in 1..(n + 1) |->
            << <<CrossWallX(n, k - 1), -(RoomSide \div 2)>>,
               <<CrossWallX(n, k - 1), RoomSide \div 2>> >>]

\* the door entities of a row of n rooms: on the midpoint of the first
\* shared wall (a CIRCLE and an INSERT), on the midpoint of the last shared
\* wall (a LINE across it), on the last shared wall off its midpoint, on the
\* top wall of the first room, and far from every wall
RowDoors(n) == <<
    Circle(L_d, 101, <<CrossWallX(n, 1), 0>>, 450),
    Insert(L_d, 102, B_T, <<CrossWallX(n, 1), 0>>),
    Line(L_d, 103, <<CrossWallX(n, n - 1) - 400, 0>>, <<CrossWallX(n, n - 1) + 400, 0>>),
    Circle(L_d, 104, <<CrossWallX(n, n - 1), 100>>, 450),
    Circle(L_d, 105, <<CrossWallX(n, 0) + RoomSide \div 2, RoomSide \div 2>>, 450),
    Circle(L_d, 106, <<0, 2000>>, 450) >>

\* the plan mirrored in the diagonal: rows become stacks
Transposed(ents) ==
    LET swap(p) == IF p = <<>> THEN <<>> ELSE <<p[2], p[1]>>
    IN  [i \in DOMAIN ents |->
            [ents[i] EXCEPT !.vertices = [k \in DOMAIN @ |-> swap(@[k])],
                            !.center = swap(@), !.position = swap(@)]]

RowPlans ==
    UNION {{PlanLines(RowCenterlines(n), HalfWall) \o [i \in DOMAIN s |-> RowDoors(n)[s[i]]] :
               s \in Arrangements(RowDoors(n), MaxDoors)} : n \in RowSizes}

\* half the side of the outer outline of an enclosure, and wall thicknesses
EnclosureHalfSides == {400, 600}

EnclosureThicknesses == {20, 40, 70, 72, 100, 200}

\* the four sides of a square outline as LINEs, handles from h
OutlineLines(h, a) ==
    <<Line(L_w, h, <<-a, -a>>, <<a, -a>>), Line(L_w, h + 1, <<a, -a>>, <<a, a>>),
      Line(L_w, h + 2, <<a, a>>, <<-a, a>>), Line(L_w, h + 3, <<-a, a>>, <<-a, -a>>)>>

\* a square enclosure: outer outline of half side a, inner outline t inside
\* it; the eight lines outline by outline, or wall by wall
Enclosure(a, t, by_wall) ==
    IF by_wall
    THEN Concat([k \in 1..4 |-> <<OutlineLines(1, a)[k], OutlineLines(5, a - t)[k]>>])
    ELSE OutlineLines(1, a) \o OutlineLines(5, a - t)

\* the same enclosure drawn as two closed polylines
EnclosurePolylines(a, t) ==
    <<Polyline(L_w, 1, Rect(-a, -a, a, a)), Polyline(L_w, 2, Rect(t - a, t - a, a - t, a - t))>>

EnclosurePlans ==
    {Enclosure(a, t, by_wall) : a \in EnclosureHalfSides, t \in EnclosureThicknesses,
                                by_wall \in BOOLEAN}
    \cup {EnclosurePolylines(a, t) : a \in EnclosureHalfSides, t \in EnclosureThicknesses}

\* three walls on one line: two short ones end to end and a long one over both
CollinearPlan ==
    WallLines(1, <<-600, 0>>, <<0, 0>>, 10) \o WallLines(3, <<0, 0>>, <<600, 0>>, 10)
    \o WallLines(5, <<-600, 0>>, <<600, 0>>, 20)

\* the corners of an L-shaped outline with arms 500 wide, whose centroid
\* lies in the notch, outside the outline
LCorners == << <<-700, -700>>, <<700, -700>>, <<700, -200>>, <<-200, -200>>,
               <<-200, 700>>, <<-700, 700>> >>

\* one L-shaped room: a wall per side of the outline
LRoomPlan ==
    PlanLines([i \in DOMAIN LCorners |-> <<LCorners[i], LCorners[(i % Len(LCorners)) + 1]>>],
              HalfWall)

\* an L-shaped building of two rooms, one per arm: the left side of the
\* outline is split where the wall between the rooms meets it
LBuildingPlan ==
    PlanLines(<< <<LCorners[1], LCorners[2]>>, <<LCorners[2], LCorners[3]>>,
                 <<LCorners[3], LCorners[4]>>, <<LCorners[4], LCorners[5]>>,
                 <<LCorners[5], LCorners[6]>>, <<LCorners[6], <<-700, -200>> >>,
                 << <<-700, -200>>, LCorners[1]>>, << <<-700, -200>>, LCorners[4]>> >>,
              HalfWall)

\* three walls 600 long that end side by side on one line, a gap apart:
\* the outer two go up from it, the middle one goes down
ChainGaps == {40, 50, 52}

ChainCenterlines(gap) ==
    << << <<0, 0>>, <<0, 600>> >>, << <<gap, 0>>, <<gap, -600>> >>,
       << <<2 * gap, 0>>, <<2 * gap, 600>> >> >>

\* the three walls in every order
ChainPlans ==
    {PlanLines([k \in 1..3 |-> ChainCenterlines(gap)[order[k]]], HalfWall) :
        gap \in ChainGaps, order \in Reorderings(3)}

PlanDrawings ==
    RowPlans \cup ChainPlans \cup {Transposed(d) : d \in RowPlans} \cup EnclosurePlans
    \cup {CollinearPlan, Transposed(CollinearPlan)}
    \cup {LRoomPlan, Transposed(LRoomPlan), LBuildingPlan, Transposed(LBuildingPlan)}

SEL_PLAN == <<Item("non-wall-layer", <<L_w>>), Item("non-door-layer", <<L_d>>)>>

InitPlan ==
    /\ pc = "wall"
    /\ entities \in PlanDrawings
    /\ blocks = <<>>
    /\ selections = SEL_PLAN
    /\ rules = <<>>
    /\ basic_records = <<>>
    /\ borders = <<>>
    /\ axis_summaries = <<>>
    /\ columns = <<>>
    /\ walls = <<>>
    /\ rooms = <<>>
    /\ doors = <<>>
    /\ out = <<>>
    /\ result = <<>>

NextPlan ==
    \/ BuildWallRecords
    \/ BuildRoomRecords
    \/ BuildDoorRecords

SpecPlan == InitPlan /\ [][NextPlan]_vars

(***************************************************************************)
(* The border and axis detectors on grids: one title block and lines on    *)
(* the axis layer, vertical (two of them at the same x), horizontal and    *)
(* diagonal, in every order                                                *)
(***************************************************************************)
\* most axis-layer lines of a grid
MaxAxes == 3

AxisCatalog == <<
    Line(L_x, 11, <<400, -600>>, <<400, 600>>),
    Line(L_x, 12, <<-400, -600>>, <<-400, 600>>),
    Line(L_x, 13, <<0, -600>>, <<0, 600>>),
    Line(L_x, 14, <<0, 500>>, <<0, -500>>),
    Line(L_x, 15, <<-600, 200>>, <<600, 200>>),
    Line(L_x, 16, <<600, -200>>, <<-600, -200>>),
    Line(L_x, 17, <<-600, -600>>, <<600, 600>>) >>

GridDrawings ==
    {<<Insert(L_0, 1, B_T, <<0, 0>>)>> \o [i \in DOMAIN s |-> AxisCatalog[s[i]]] :
        s \in Arrangements(AxisCatalog, MaxAxes)}

SEL_GRID == <<Item("basic-border-block", <<B_t>>), Item("struct-axis-layer", <<L_x>>)>>

InitGrid ==
    /\ pc = "border"
    /\ entities \in GridDrawings
    /\ blocks = BuilderBlocks
    /\ selections = SEL_GRID
    /\ rules = <<>>
    /\ basic_records = <<>>
    /\ borders = <<>>
    /\ axis_summaries = <<>>
    /\ columns = <<>>
    /\ walls = <<>>
    /\ rooms = <<>>
    /\ doors = <<>>
    /\ out = <<>>
    /\ result = <<>>

NextGrid ==
    \/ BuildBorderRecords
    \/ BuildAxisSummaryRecords

SpecGrid == InitGrid /\ [][NextGrid]_vars

(***************************************************************************)
(* The border detector alone, on block libraries with a rectangular, a     *)
(* flat, a one-point, a vertex-less, a differently named or no title       *)
(* block, and block references moved, scaled and turned                    *)
(***************************************************************************)
\* most entities of a drawing handed to the border detector alone
MaxBorderEnts == 2

B_U == Str1("U")

BorderLibraries == {
    <<[name |-> B_T, entities |-> <<Polyline(L_0, 0, Rect(-700, -500, 700, 500))>>]>>,
    <<[name |-> B_T, entities |-> <<Line(L_0, 0, <<-700, 0>>, <<700, 0>>)>>]>>,
    <<[name |-> B_t, entities |-> <<Polyline(L_0, 0, << <<6, 4>> >>)>>]>>,
    <<[name |-> B_T, entities |-> <<Polyline(L_0, 0, <<>>)>>]>>,
    <<[name |-> B_U, entities |-> <<Polyline(L_0, 0, Rect(-700, -500, 700, 500))>>]>>,
    <<>> }

BorderCatalog == <<
    Insert(L_0, 1, B_T, <<0, 0>>),
    [Insert(L_0, 2, B_t, <<2000, 100>>) EXCEPT !.rotation = 90, !.xScale = 2],
    [Insert(L_0, 3, B_T, <<-3000, 0>>) EXCEPT !.rotation = 180, !.yScale = 3],
    Insert(L_0, 4, B_U, <<0, 0>>),
    Line(L_0, 5, <<-700, 0>>, <<700, 0>>),
    Insert(L_0, 6, B_T, <<>>) >>

BorderDrawings ==
    {[i \in DOMAIN s |-> BorderCatalog[s[i]]] : s \in Arrangements(BorderCatalog, MaxBorderEnts)}

SEL_BORDER == <<Item("basic-border-block", <<B_t>>)>>

InitBorder ==
    /\ pc = "border"
    /\ entities \in BorderDrawings
    /\ blocks \in BorderLibraries
    /\ selections = SEL_BORDER
    /\ rules = <<>>
    /\ basic_records = <<>>
    /\ borders = <<>>
    /\ axis_summaries = <<>>
    /\ columns = <<>>
    /\ walls = <<>>
    /\ rooms = <<>>
    /\ doors = <<>>
    /\ out = <<>>
    /\ result = <<>>

NextBorder == BuildBorderRecords

SpecBorder == InitBorder /\ [][NextBorder]_vars

(***************************************************************************)
(* The detectors up to the walls on drawings with no, one or two title     *)
(* blocks and wall lines inside the first, inside the second, or reaching  *)
(* out of one                                                              *)
(***************************************************************************)
\* most wall-layer lines of such a drawing
MaxFilterEnts == 3

FilterFrames == {
    <<>>,
    <<Insert(L_0, 1, B_T, <<0, 0>>)>>,
    <<Insert(L_0, 1, B_T, <<0, 0>>), Insert(L_0, 2, B_T, <<3000, 0>>)>>,
    <<Insert(L_0, 2, B_T, <<3000, 0>>), Insert(L_0, 1, B_T, <<0, 0>>)>> }

FilterCatalog == <<
    Line(L_w, 11, <<-500, 0>>, <<500, 0>>),
    Line(L_w, 12, <<-500, 200>>, <<500, 200>>),
    Line(L_w, 13, <<2500, 0>>, <<3500, 0>>),
    Line(L_w, 14, <<2500, 200>>, <<3500, 200>>),
    Line(L_w, 15, <<-500, -200>>, <<900, -200>>),
    Polyline(L_w, 16, << <<-600, 400>>, <<600, 400>>, <<600, 800>> >>) >>

FilterDrawings ==
    {frame \o [i \in DOMAIN s |-> FilterCatalog[s[i]]] :
        frame \in FilterFrames, s \in Arrangements(FilterCatalog, MaxFilterEnts)}

InitFilter ==
    /\ pc = "border"
    /\ entities \in FilterDrawings
    /\ blocks = BuilderBlocks
    /\ selections = SEL_BORDER_WALL
    /\ rules = <<>>
    /\ basic_records = <<>>
    /\ borders = <<>>
    /\ axis_summaries = <<>>
    /\ columns = <<>>
    /\ walls = <<>>
    /\ rooms = <<>>
    /\ doors = <<>>
    /\ out = <<>>
    /\ result = <<>>

NextFilter ==
    \/ BuildBorderRecords
    \/ BuildAxisSummaryRecords
    \/ BuildColumnRecords
    \/ BuildWallRecords

SpecFilter == InitFilter /\ [][NextFilter]_vars

(***************************************************************************)
(* The column stage of the package detector and of the worker's run, on a  *)
(* title block with axes crossing at (0, 0) and (600, 0) and entities at   *)
(* various offsets from a crossing                                         *)
(***************************************************************************)
\* most column candidates of a drawing
MaxGridCols == 2

GridColumnCatalog == <<
    Circle(L_c, 21, <<0, 0>>, 300),
    Circle(L_c, 22, <<1, -1>>, 300),
    Circle(L_c, 23, <<2, 0>>, 300),
    Circle(L_c, 24, <<150, -150>>, 300),
    Circle(L_c, 25, <<0, 152>>, 300),
    Circle(L_c, 26, <<740, 0>>, 300),
    Polyline(L_c, 27, Rect(-200, -100, 200, 300)),
    Line(L_c, 28, <<-100, 0>>, <<100, 0>>),
    Circle(L_w, 29, <<0, 0>>, 300),
    Circle(L_c, 30, <<600, 0>>, 200) >>

\* the title block with the three axes, or with a single axis (no crossing)
GridFrames == {
    <<Insert(L_0, 1, B_T, <<0, 0>>), Line(L_x, 2, <<0, -600>>, <<0, 600>>),
      Line(L_x, 3, <<-600, 0>>, <<600, 0>>), Line(L_x, 4, <<600, -600>>, <<600, 600>>)>>,
    <<Insert(L_0, 1, B_T, <<0, 0>>), Line(L_x, 2, <<0, -600>>, <<0, 600>>)>> }

GridColumnDrawings ==
    {frame \o [i \in DOMAIN s |-> GridColumnCatalog[s[i]]] :
        frame \in GridFrames, s \in Arrangements(GridColumnCatalog, MaxGridCols)}

SEL_GRID_COLUMNS == <<Item("basic-border-block", <<B_t>>), Item("struct-axis-layer", <<L_x>>),
                      Item("struct-ccol-layer", <<L_c>>)>>

InitGridColumns ==
    /\ pc = "border"
    /\ entities \in GridColumnDrawings
    /\ blocks = BuilderBlocks
    /\ selections = SEL_GRID_COLUMNS
    /\ rules = <<>>
    /\ basic_records = <<>>
    /\ borders = <<>>
    /\ axis_summaries = <<>>
    /\ columns = <<>>
    /\ walls = <<>>
    /\ rooms = <<>>
    /\ doors = <<>>
    /\ out = <<>>
    /\ result = <<>>

\* parse2_node.py run 591-609: the column stage of the worker, after its
\* border and axis stages (copies of the package's)
Parse2BuildColumnRecords ==
    /\ pc = "column"
    /\ \E r \in {parse2_build_column_records(axis_for_columns(borders, axis_summaries),
                                             entities, selections, PARSE2_COLUMN_EPS)} :
           /\ pc' = IF r.raised THEN "raised_in_column" ELSE "parse2_column"
           /\ columns' = r.records
    /\ UNCHANGED <<entities, blocks, selections, rules, basic_records, borders, axis_summaries,
                   walls, rooms, doors, out, result>>

NextGridColumns ==
    \/ BuildBorderRecords
    \/ BuildAxisSummaryRecords
    \/ BuildColumnRecords
    \/ Parse2BuildColumnRecords

SpecGridColumns == InitGridColumns /\ [][NextGridColumns]_vars

(***************************************************************************)
(* assign_column_types on lists of accepted columns: circles and           *)
(* rectangles, sizes in thousandths, some equal after rounding, a          *)
(* rectangle and its quarter turn, in every order                          *)
(***************************************************************************)
\* most columns of a list
MaxCols == 3

Column(k, shape, a, b) ==
    [border_index |-> 1, center |-> <<400 * k, 0>>, size |-> [shape |-> shape, a |-> a, b |-> b]]

ColumnCatalog == <<
    Column(1, "circle", 300000, 600000),
    Column(2, "circle", 300004, 600008),
    Column(3, "rect", 600000, 400000),
    Column(4, "rect", 400000, 600000),
    Column(5, "rect", 600000, 600000),
    Column(6, "rect", 600000, 600000),
    Column(7, "rect", 600004, 599996),
    Column(8, "rect", 400000, 400000) >>

ColumnLists ==
    {[i \in DOMAIN s |-> ColumnCatalog[s[i]]] : s \in Arrangements(ColumnCatalog, MaxCols)}

InitColumns ==
    /\ pc = "assign"
    /\ entities = <<>>
    /\ blocks = <<>>
    /\ selections = <<>>
    /\ rules = <<>>
    /\ basic_records = <<>>
    /\ borders = <<>>
    /\ axis_summaries = <<>>
    /\ columns \in ColumnLists
    /\ walls = <<>>
    /\ rooms = <<>>
    /\ doors = <<>>
    /\ out = <<>>
    /\ result = <<>>

\* column.py 117: the list of accepted columns gets its labels in place
AssignColumnTypes ==
    /\ pc = "assign"
    /\ pc' = "assigned"
    /\ columns' = assign_column_types(columns)
    /\ UNCHANGED <<entities, blocks, selections, rules, basic_records, borders, axis_summaries,
                   walls, rooms, doors, out, result>>

NextColumns == AssignColumnTypes

SpecColumns == InitColumns /\ [][NextColumns]_vars

(***************************************************************************)
(* The rule engine: the rules of a run (parse2_node.py 551) and one        *)
(* match_rule call                                                         *)
(***************************************************************************)
S_WA == Str2("W", "A")

S_wa == Str2("w", "a")

S_Wa == Str2("W", "a")

S_A == Str1("A")

RuleEntities == {
    Line(S_wa, 1, <<0, 0>>, <<10, 0>>),
    Line(S_WA, 2, <<0, 0>>, <<10, 0>>),
    Circle(S_A, 3, <<0, 0>>, 10),
    Insert(L_0, 4, B_t, <<0, 0>>),
    Insert(S_Wa, 5, B_T, <<0, 0>>),
    Line(<<>>, 6, <<0, 0>>, <<10, 0>>) }

RuleOf(kind, keys, source, match) ==
    [kind |-> kind, keys |-> keys, source |-> source, match |-> match]

RuleCatalog == <<
    RuleOf("wall", <<S_WA>>, "layer", "contains"),
    RuleOf("door", <<S_A, L_W>>, "layer", "contains"),
    RuleOf("column", <<S_WA>>, "layer", "exact"),
    RuleOf("border", <<B_T>>, "block", "exact"),
    RuleOf("block", <<T_LINE>>, "type", "contains"),
    RuleOf("axis", <<S_wa>>, "layer", "exact") >>

\* caller-supplied rule lists (payload.rules), any order, repeats allowed
CallerRules ==
    {[i \in DOMAIN s |-> RuleCatalog[s[i]]] :
        s \in UNION {[1..k -> DOMAIN RuleCatalog] : k \in 1..MaxRules}}

SEL_UNKNOWN == <<Item("bogus-layer", <<S_wa>>), Item("non-wall-layer", <<S_wa, L_0>>),
                 Item("basic-border-block", <<B_t>>)>>

RuleSelections == {<<>>, SEL_FULL, SEL_BLANK, SEL_UNKNOWN}

InitRules ==
    /\ pc = "rules"
    /\ \E e \in RuleEntities : entities = <<e>>
    /\ \/ rules \in CallerRules /\ selections = <<>>
       \/ rules = <<>> /\ selections \in RuleSelections
    /\ blocks = <<>>
    /\ basic_records = <<>>
    /\ borders = <<>>
    /\ axis_summaries = <<>>
    /\ columns = <<>>
    /\ walls = <<>>
    /\ rooms = <<>>
    /\ doors = <<>>
    /\ out = <<>>
    /\ result = <<>>

\* parse2_node.py 551, left operand of `or`: the caller's rules are used
UseCallerRules ==
    /\ pc = "rules"
    /\ rules # <<>>
    /\ pc' = "match"
    /\ UNCHANGED <<entities, blocks, selections, rules, basic_records, borders, axis_summaries,
                   columns, walls, rooms, doors, out, result>>

\* parse2_node.py 551, the other operands: rules_from_selections is called
RulesFromSelections ==
    /\ pc = "rules"
    /\ rules = <<>>
    /\ result' = rules_from_selections(selections)
    /\ rules' = effective_rules(rules, selections)
    /\ pc' = IF result'.raised THEN "raised_in_rules" ELSE "derived"
    /\ UNCHANGED <<entities, blocks, selections, basic_records, borders, axis_summaries,
                   columns, walls, rooms, doors, out>>

\* matchers.py match_rule on the entity
MatchRule ==
    /\ pc \in {"match", "derived"}
    /\ result' = match_rule(entities[1], rules)
    /\ pc' = "matched"
    /\ UNCHANGED <<entities, blocks, selections, rules, basic_records, borders, axis_summaries,
                   columns, walls, rooms, doors, out>>

NextRules ==
    \/ UseCallerRules
    \/ RulesFromSelections
    \/ MatchRule

SpecRules == InitRules /\ [][NextRules]_vars

(***************************************************************************)
(* Properties                                                              *)
(***************************************************************************)
\* the stage a record of the output belongs to: a basic record carries the
\* entity as its properties, a detector record is told by its kind
StageOf(r) ==
    IF "type" \in DOMAIN r.properties THEN 1
    ELSE CASE r.kind = "border" -> 2
           [] r.kind = "axis_summary" -> 3
           [] r.kind = "concrete_column" -> 4
           [] r.kind \in {"structural_wall", "partition_wall"} -> 5
           [] r.kind = "room" -> 6
           [] r.kind = "door" -> 7
           [] r.kind = "room_connectivity" -> 8
           [] OTHER -> 9

RaisedStates == {"raised_in_border", "raised_in_axis", "raised_in_column", "raised_in_wall",
                 "raised_in_room", "raised_in_door", "raised_in_rules"}

\* C1: the list returned by build_all_records is grouped by stage in the
\* fixed order basic, border, axis_summary, column, wall, room (door,
\* connectivity): no record of a later stage precedes a record of an earlier
\* stage, and each stage's records are the list its detector returned.
C1_StageOrder ==
    pc = "done" =>
        /\ \A i, j \in DOMAIN out : i < j => StageOf(out[i]) <= StageOf(out[j])
        /\ SelectSeq(out, LAMBDA r : StageOf(r) = 1) = basic_records
        /\ SelectSeq(out, LAMBDA r : StageOf(r) = 2) = borders
        /\ SelectSeq(out, LAMBDA r : StageOf(r) = 3) = axis_summaries
        /\ SelectSeq(out, LAMBDA r : StageOf(r) = 4) = columns
        /\ SelectSeq(out, LAMBDA r : StageOf(r) = 5) = walls
        /\ SelectSeq(out, LAMBDA r : StageOf(r) = 6) = rooms

\* a returned list that holds records of all six stages the builder runs
C1_Witness ==
    /\ pc = "done"
    /\ {StageOf(out[i]) : i \in DOMAIN out} = 1..6

\* C2: whenever the selections name a door layer and an entity on that layer
\* has a derivable center, the list returned by build_all_records holds a
\* door record for that entity.
C2_DoorRecordsReturned ==
    pc = "done" =>
        \A i \in DOMAIN entities :
            (/\ Upper(entities[i].layer) \in upper_set(sel_get(selections, "non-door-layer"))
             /\ ~ get_entity_center(entities[i]).raised
             /\ ~ get_entity_center(entities[i]).none)
            => \E k \in DOMAIN out :
                  /\ StageOf(out[k]) = 7
                  /\ out[k].properties.entity_handle = entities[i].handle

\* C4: match_rule returns the kind and provenance of the first rule, in list
\* order, that matches the entity; <<None, <<>>>> if and only if no rule of
\* the list matches.
C4_FirstMatchWins ==
    pc = "matched" =>
        LET entity == entities[1]
            field(rule) ==
                CASE rule.source = "layer" -> Upper(entity.layer)
                  [] rule.source = "type" -> Upper(entity.type)
                  [] rule.source = "block" -> Upper(entity.name)
            prefix(rule) ==
                CASE rule.source = "layer" -> "layer:"
                  [] rule.source = "type" -> "type:"
                  [] rule.source = "block" -> "block:"
            matches(rule) ==
                \E i \in DOMAIN rule.keys :
                    IF rule.match = "exact" THEN rule.keys[i] = field(rule)
                    ELSE IsSubstr(rule.keys[i], field(rule))
            matching == {i \in DOMAIN rules : matches(rules[i])}
        IN  /\ (result = <<None, <<>> >>) <=> (matching = {})
            /\ matching # {} =>
                  \E first \in matching :
                      /\ \A i \in matching : first <= i
                      /\ result = <<rules[first].kind, <<prefix(rules[first]), field(rules[first])>> >>

\* a match_rule call in which two rules of different kinds match the entity
C4_Witness ==
    /\ pc = "matched"
    /\ result # <<None, <<>> >>
    /\ \E i, j \in DOMAIN rules :
          /\ i < j
          /\ rules[i].kind # rules[j].kind
          /\ match_one(entities[1], rules[i])[2] # <<>>
          /\ match_one(entities[1], rules[j])[2] # <<>>

\* C5: changing the letter case of the entity's layer, type or block name,
\* or of any rule's match keys, does not change the kind match_rule returns.
C5_CaseInsensitive ==
    pc = "matched" =>
        LET LowChar(c) ==
                IF \E i \in DOMAIN UpperChars : UpperChars[i] = c
                THEN LowerChars[CHOOSE i \in DOMAIN UpperChars : UpperChars[i] = c]
                ELSE c
            Lower(str) == [i \in DOMAIN str |-> LowChar(str[i])]
            recased_entities ==
                {[entities[1] EXCEPT !.layer = f1, !.type = f2, !.name = f3] :
                    f1 \in {Upper(entities[1].layer), Lower(entities[1].layer)},
                    f2 \in {Upper(entities[1].type), Lower(entities[1].type)},
                    f3 \in {Upper(entities[1].name), Lower(entities[1].name)}}
            upper_keys == [i \in DOMAIN rules |->
                              [rules[i] EXCEPT !.keys = [k \in DOMAIN @ |-> Upper(@[k])]]]
            lower_keys == [i \in DOMAIN rules |->
                              [rules[i] EXCEPT !.keys = [k \in DOMAIN @ |-> Lower(@[k])]]]
        IN  \A entity \in recased_entities, rs \in {rules, upper_keys, lower_keys} :
                match_rule(entity, rs)[1] = result[1]

\* C6: an entity with malformed geometry is skipped; build_all_records never
\* raises because of it.
C6_NeverRaises == pc \notin RaisedStates

\* the detector keys of the selections map, with the list each detector reads
NoValue(key) ==
    \A i \in DOMAIN sel_get(selections, key) : sel_get(selections, key)[i] = <<>>

\* C7 as stated: each of the border, axis, column, wall and door detectors
\* returns an empty list, without raising, when the selections map is absent
\* or holds no non-empty value for the detector's selection key.
C7_EmptyWithoutValue ==
    /\ NoValue("basic-border-block") => (pc # "raised_in_border" /\ borders = <<>>)
    /\ NoValue("struct-axis-layer") => (pc # "raised_in_axis" /\ axis_summaries = <<>>)
    /\ NoValue("struct-ccol-layer") => (pc # "raised_in_column" /\ columns = <<>>)
    /\ (NoValue("struct-cwall-layer") /\ NoValue("non-wall-layer"))
           => (pc # "raised_in_wall" /\ walls = <<>>)
    /\ NoValue("non-door-layer") => (pc # "raised_in_door" /\ doors = <<>>)

\* C7, amended: the border detector returns an empty list, without raising,
\* when the selections map is absent or its key is missing or has an empty
\* list; the axis, column, wall and door detectors when the map is absent or
\* holds no non-empty value for their key.  The later detectors then run.
C7_EmptyWithoutSelection ==
    /\ sel_get(selections, "basic-border-block") = <<>>
           => (pc # "raised_in_border" /\ borders = <<>>)
    /\ NoValue("struct-axis-layer") => (pc # "raised_in_axis" /\ axis_summaries = <<>>)
    /\ NoValue("struct-ccol-layer") => (pc # "raised_in_column" /\ columns = <<>>)
    /\ (NoValue("struct-cwall-layer") /\ NoValue("non-wall-layer"))
           => (pc # "raised_in_wall" /\ walls = <<>>)
    /\ NoValue("non-door-layer") => (pc # "raised_in_door" /\ doors = <<>>)

\* every detector has run; the axis, column and door detectors had no value
\* for their key and returned nothing although a border and walls were found
C7_Witness ==
    /\ pc = "doors_done"
    /\ NoValue("struct-axis-layer") /\ NoValue("struct-ccol-layer") /\ NoValue("non-door-layer")
    /\ borders # <<>>
    /\ walls # <<>>
    /\ axis_summaries = <<>> /\ columns = <<>> /\ doors = <<>>
    /\ \E i \in DOMAIN entities : entities[i].layer \in {L_x, L_c, L_d}

\* C8: rules_from_selections signals an error when the selections map holds
\* a key that is not in SELECTION_RULE_MAP.
C8_UnknownKeySignalled ==
    (/\ pc \in {"derived", "raised_in_rules"}
     /\ \E i \in DOMAIN selections : selections[i].key \notin DOMAIN SELECTION_RULE_MAP)
    => result.raised

\* C9: no segment (a LINE, or one consecutive-vertex segment of a polyline)
\* appears in the contributing handles of two walls of one run.
C9_SegmentInOneWall ==
    \A k, l \in DOMAIN walls : \A a, b \in 1..2 :
        walls[k].properties.handles[a] = walls[l].properties.handles[b] => (k = l /\ a = b)

\* three parallel lines, each a partner for its neighbour: one wall is built
\* and the third line stays alone
C9_Witness ==
    /\ pc = "room"
    /\ entities = <<WallCatalog[1], WallCatalog[2], WallCatalog[3]>>
    /\ Len(walls) = 1

\* the walls with a contributing handle derived from the entity
WallsOf(entity) ==
    {k \in DOMAIN walls : \E a \in 1..2 : walls[k].properties.handles[a][1] = entity.handle}

\* C10 as stated: for any entity, a split polyline included, at most one
\* wall has a contributing handle derived from that entity.
C10_EntityInOneWall ==
    \A i \in DOMAIN entities : Cardinality(WallsOf(entities[i])) <= 1

\* C10, amended: an entity contributes to at most one wall per segment it
\* is split into: a LINE to at most one wall, a polyline to at most as many
\* walls as it has consecutive-vertex segments.
C10_EntityWallsWithinSegments ==
    \A i \in DOMAIN entities :
        Cardinality(WallsOf(entities[i])) <= Len(extract_line_data(entities[i]).records)

\* a closed polyline whose opposite sides pair with each other: two walls
\* from one entity
C10_Witness ==
    /\ pc = "room"
    /\ \E i \in DOMAIN entities :
          /\ entities[i].type = T_LWPOLYLINE
          /\ Cardinality(WallsOf(entities[i])) = 2

\* C11: every wall record emitted by build_wall_records has a thickness of
\* at most max_thickness and a length of at least min_length.
C11_WallWithinLimits ==
    \A k \in DOMAIN walls :
        /\ walls[k].properties.thickness <= MAX_THICKNESS
        /\ walls[k].properties.length >= MIN_LENGTH

\* walls were built, one of them exactly max_thickness thick, while two
\* parallel overlapping lines more than max_thickness apart stayed unpaired
C11_Witness ==
    /\ pc = "room"
    /\ entities = <<WallCatalog[2], WallCatalog[4], WallCatalog[1]>>
    /\ Len(walls) = 2
    /\ \E k \in DOMAIN walls : walls[k].properties.thickness = MAX_THICKNESS
    /\ perpendicular_distance(<<0, 0>>, <<1000, 0>>, <<1000, 1400>>, <<0, 1400>>) > MAX_THICKNESS

\* the two lines of a drawing that is a pair of parallel, fully overlapping
\* lines of equal length on one wall layer: <<p1, q1, p2, q2>>, else <<>>
PairOf(ents) ==
    LET p1 == ents[1].vertices[1]
        q1 == ents[1].vertices[2]
        p2 == ents[2].vertices[1]
        q2 == ents[2].vertices[2]
        horizontal(p, q) == p[2] = q[2] /\ p[1] # q[1]
        vertical(p, q) == p[1] = q[1] /\ p[2] # q[2]
    IN  IF /\ Len(ents) = 2
           /\ \A i \in 1..2 : ents[i].type = T_LINE /\ Len(ents[i].vertices) = 2
           /\ Upper(ents[1].layer) = Upper(ents[2].layer)
           /\ \/ Upper(ents[1].layer) \in upper_set(sel_get(selections, "struct-cwall-layer"))
              \/ Upper(ents[1].layer) \in upper_set(sel_get(selections, "non-wall-layer"))
           /\ \/ horizontal(p1, q1) /\ horizontal(p2, q2) /\ {p1[1], q1[1]} = {p2[1], q2[1]}
              \/ vertical(p1, q1) /\ vertical(p2, q2) /\ {p1[2], q1[2]} = {p2[2], q2[2]}
        THEN <<p1, q1, p2, q2>>
        ELSE <<>>

\* the common length of the two lines of a pair
PairLength(pr) == Abs(pr[2][1] - pr[1][1]) + Abs(pr[2][2] - pr[1][2])

\* the perpendicular distance between the two lines of a pair
PairDistance(pr) ==
    IF pr[1][2] = pr[2][2] THEN Abs(pr[3][2] - pr[1][2]) ELSE Abs(pr[3][1] - pr[1][1])

\* the points midway between the corresponding endpoints of the two lines
PairMidpoints(pr) ==
    LET facing(p) == IF pr[1][2] = pr[2][2]
                     THEN (IF pr[3][1] = p[1] THEN pr[3] ELSE pr[4])
                     ELSE (IF pr[3][2] = p[2] THEN pr[3] ELSE pr[4])
        mid(p, q) == <<(p[1] + q[1]) \div 2, (p[2] + q[2]) \div 2>>
    IN  {mid(pr[1], facing(pr[1])), mid(pr[2], facing(pr[2]))}

\* C12: two parallel, fully overlapping lines of equal length L >= min_length
\* on one wall layer, at a perpendicular distance d with 1 < d <=
\* max_thickness, give exactly one wall, of thickness d and length L, whose
\* centerline ends midway between the corresponding endpoints of the lines.
C12_OneWallFromPair ==
    (/\ pc = "room"
     /\ PairOf(entities) # <<>>
     /\ PairLength(PairOf(entities)) >= MIN_LENGTH
     /\ PairDistance(PairOf(entities)) > 1
     /\ PairDistance(PairOf(entities)) <= MAX_THICKNESS)
    => /\ Len(walls) = 1
       /\ walls[1].properties.thickness = PairDistance(PairOf(entities))
       /\ walls[1].properties.length = PairLength(PairOf(entities))
       /\ {walls[1].properties.start, walls[1].properties.end} = PairMidpoints(PairOf(entities))

\* the case of the description: length 1000, distance 200, the two lines
\* drawn in opposite directions
C12_Witness ==
    /\ pc = "room"
    /\ PairOf(entities) # <<>>
    /\ PairLength(PairOf(entities)) = 1000
    /\ PairDistance(PairOf(entities)) = 200
    /\ PairOf(entities)[1][1] < PairOf(entities)[2][1]
    /\ PairOf(entities)[3][1] > PairOf(entities)[4][1]
    /\ Len(walls) = 1
    /\ walls[1].properties.start = <<0, 100>>
    /\ walls[1].properties.end = <<1000, 100>>

\* C13 (as stated): a rectangular enclosure drawn as an outer and an inner
\* outline, four pairs of parallel lines, gives exactly one room with four
\* vertices, whose area is that of the rectangle the walls enclose: the
\* rectangle of the inner outline, of the wall centerlines or of the outer
\* outline, whichever reading is taken
C13_EnclosureRoom ==
    pc \in {"rooms_done", "doors_done"} =>
        \A a \in EnclosureHalfSides, t \in EnclosureThicknesses :
            entities \in {Enclosure(a, t, TRUE), Enclosure(a, t, FALSE)} =>
                /\ Len(rooms) = 1
                /\ rooms[1].properties.vertex_count = 4
                /\ rooms[1].properties.area_x2 \in
                       {2 * (2 * a - 2 * t) * (2 * a - 2 * t),
                        2 * (2 * a - t) * (2 * a - t),
                        2 * (2 * a) * (2 * a)}

\* C14: no room has an area below the degenerate threshold of 100 square
\* units, whatever cycles the wall graph has
C14_NoDegenerateRoom ==
    \A k \in DOMAIN rooms : rooms[k].properties.area_x2 >= 2 * DEGENERATE_AREA

\* the three collinear walls form a cycle of area 0, which is dropped
C14_Witness ==
    /\ pc = "rooms_done"
    /\ entities = CollinearPlan
    /\ Len(walls) = 3
    /\ \E c \in Range(find_minimal_cycles(build_wall_graph(walls, ENDPOINT_TOLERANCE),
                                          MAX_CYCLE_LENGTH)) :
           polygon_area_x2(c) < 2 * DEGENERATE_AREA
    /\ rooms = <<>>

\* C15: the rooms are in ascending order of area, and the centroid of a room
\* lies inside no room accepted before it
C15_NoNestedRoom ==
    \A i, j \in DOMAIN rooms :
        i < j =>
            /\ rooms[i].properties.area_x2 <= rooms[j].properties.area_x2
            /\ ~ point_in_polygon(rooms[j].properties.centroid[1], rooms[i].properties.vertices)

\* a row of three rooms: three rooms are accepted, and a cycle around two of
\* them, not degenerate, is found and rejected
C15_Witness ==
    /\ pc = "rooms_done"
    /\ Len(rooms) = 3
    /\ \E c \in Range(find_minimal_cycles(build_wall_graph(walls, ENDPOINT_TOLERANCE),
                                          MAX_CYCLE_LENGTH)) :
           /\ polygon_area_x2(c) >= 2 * DEGENERATE_AREA
           /\ \A k \in DOMAIN rooms : rooms[k].properties.vertices # c
           /\ \E k \in DOMAIN rooms :
                  point_in_polygon(polygon_centroid(c)[1], rooms[k].properties.vertices)

\* the axis-layer line with the given handle, and its direction
GridLine(h) == CHOOSE e \in Range(entities) : e.handle = h

IsVerticalLine(e) == e.type = T_LINE /\ e.vertices[1][1] = e.vertices[2][1]

IsHorizontalLine(e) == e.type = T_LINE /\ e.vertices[1][2] = e.vertices[2][2]

AxisLines == SelectSeq(entities, LAMBDA e : e.layer = L_x)

\* C16 (amended): in every axis summary the vertical lines, keyed by x, are
\* the entries of y_axes and are labelled X1, X2, ...; the horizontal lines,
\* keyed by y, are the entries of x_axes and are labelled Y1, Y2, ...; the
\* number is the 1-based position in ascending order of the coordinate
C16_AxisLabels ==
    \A k \in DOMAIN axis_summaries :
        LET x_axes == axis_summaries[k].properties.x_axes
            y_axes == axis_summaries[k].properties.y_axes
        IN  /\ Len(y_axes) = Len(SelectSeq(AxisLines, IsVerticalLine))
            /\ Len(x_axes) = Len(SelectSeq(AxisLines, IsHorizontalLine))
            /\ \A i \in DOMAIN y_axes :
                   /\ IsVerticalLine(GridLine(y_axes[i].handle))
                   /\ y_axes[i].coord = GridLine(y_axes[i].handle).vertices[1][1]
                   /\ y_axes[i].label = <<"X", i>>
                   /\ i > 1 => y_axes[i - 1].coord <= y_axes[i].coord
            /\ \A i \in DOMAIN x_axes :
                   /\ IsHorizontalLine(GridLine(x_axes[i].handle))
                   /\ x_axes[i].coord = GridLine(x_axes[i].handle).vertices[1][2]
                   /\ x_axes[i].label = <<"Y", i>>
                   /\ i > 1 => x_axes[i - 1].coord <= x_axes[i].coord

\* C16 (as stated): vertical lines are labelled Y1, Y2, ... and horizontal
\* lines X1, X2, ..., the number being the position in the line's list
C16_AxisLabelsAsStated ==
    \A k \in DOMAIN axis_summaries :
        LET x_axes == axis_summaries[k].properties.x_axes
            y_axes == axis_summaries[k].properties.y_axes
            stated(axes) ==
                \A i \in DOMAIN axes :
                    /\ IsVerticalLine(GridLine(axes[i].handle)) => axes[i].label = <<"Y", i>>
                    /\ IsHorizontalLine(GridLine(axes[i].handle)) => axes[i].label = <<"X", i>>
        IN  stated(x_axes) /\ stated(y_axes)

\* the vertical line at x = 400 is drawn before the one at x = -400 and is
\* listed after it; a horizontal line is listed too
C16_Witness ==
    /\ pc = "column"
    /\ Len(axis_summaries) = 1
    /\ Len(entities) >= 3
    /\ entities[2].handle = 11 /\ entities[3].handle = 12
    /\ Len(axis_summaries[1].properties.y_axes) = 2
    /\ axis_summaries[1].properties.y_axes[1].handle = 12
    /\ axis_summaries[1].properties.y_axes[2].handle = 11
    /\ Len(axis_summaries[1].properties.x_axes) = 1

\* C17 (as stated): the axis lists hold one entry per cluster of
\* coordinates: no two entries of a list have coordinates within the
\* clustering tolerance of each other (here: no two are equal)
C17_AxesMerged ==
    \A k \in DOMAIN axis_summaries :
        LET merged(axes) == \A i, j \in DOMAIN axes : i # j => axes[i].coord # axes[j].coord
        IN  /\ merged(axis_summaries[k].properties.x_axes)
            /\ merged(axis_summaries[k].properties.y_axes)

\* a labelled column as it was before assign_column_types
Unlabelled(col) == [border_index |-> col.border_index, center |-> col.center, size |-> col.size]

\* C18: a column is labelled C<r>, r the 1-based rank of its rounded size
\* key among the distinct keys of the list; two columns have the same label
\* if and only if their keys are equal; a rectangle and its quarter turn
\* share a label; every reordering of the list gives each column the same label
C18_ColumnTypes ==
    pc = "assigned" =>
        LET key(i) == size_key(columns[i])
            label(i) == columns[i].column_type
            keys == {key(i) : i \in DOMAIN columns}
        IN  /\ \A i \in DOMAIN columns :
                   /\ label(i)[1] = "C"
                   /\ label(i)[2] = Cardinality({k \in keys : key_less(k, key(i))}) + 1
            /\ {label(i)[2] : i \in DOMAIN columns} = 1..Cardinality(keys)
            /\ \A i, j \in DOMAIN columns :
                   /\ (key(i) = key(j)) <=> (label(i) = label(j))
                   /\ columns[i].size.shape = "rect"
                      /\ columns[j].size.shape = "rect"
                      /\ columns[i].size.a = columns[j].size.b
                      /\ columns[i].size.b = columns[j].size.a
                      => label(i) = label(j)
            /\ \A p \in Reorderings(Len(columns)) :
                   LET again == assign_column_types(
                                    [k \in DOMAIN columns |-> Unlabelled(columns[p[k]])])
                   IN  \A k \in DOMAIN columns : again[k].column_type = label(p[k])

\* two columns of 600 x 600 and then one of 400 x 400: two labels, C2 for
\* the two that come first and C1 for the smaller one
C18_Witness ==
    /\ pc = "assigned"
    /\ Len(columns) = 3
    /\ columns[1].size = [shape |-> "rect", a |-> 600000, b |-> 600000]
    /\ columns[2].size = [shape |-> "rect", a |-> 600000, b |-> 600000]
    /\ columns[3].size = [shape |-> "rect", a |-> 400000, b |-> 400000]
    /\ columns[1].column_type = <<"C", 2>>
    /\ columns[2].column_type = <<"C", 2>>
    /\ columns[3].column_type = <<"C", 1>>

\* the door records and the connectivity records among the records of the
\* door detector
DoorRecords == SelectSeq(doors, LAMBDA r : r.kind = "door")

ConnectivityRecords == SelectSeq(doors, LAMBDA r : r.kind = "room_connectivity")

\* the unordered pairs of distinct rooms some door reports together
ReportedPairs ==
    {{a, b} : <<a, b>> \in
        UNION {{<<a, b>> \in Range(DoorRecords[d].properties.connects_rooms)
                             \X Range(DoorRecords[d].properties.connects_rooms) : a # b} :
               d \in DOMAIN DoorRecords}}

\* C19: the door detector emits at most one room_connectivity record, and
\* one only if some door links two rooms; its edge list holds each pair of
\* distinct rooms reported together by a door exactly once, and nothing else
C19_ConnectivityEdges ==
    pc = "doors_done" =>
        /\ Len(ConnectivityRecords) <= 1
        /\ Len(ConnectivityRecords) = 1 =>
               \E d \in DOMAIN DoorRecords :
                   Cardinality(Range(DoorRecords[d].properties.connects_rooms)) >= 2
        /\ ReportedPairs # {} => Len(ConnectivityRecords) = 1
        /\ \A c \in DOMAIN ConnectivityRecords :
               LET edges == ConnectivityRecords[c].properties.edges
               IN  /\ {{edges[i][1], edges[i][2]} : i \in DOMAIN edges} = ReportedPairs
                   /\ \A i \in DOMAIN edges : edges[i][1] # edges[i][2]
                   /\ \A i, j \in DOMAIN edges :
                          i # j => {edges[i][1], edges[i][2]} # {edges[j][1], edges[j][2]}

\* two doors on the wall between the same two rooms: one edge
C19_Witness ==
    /\ pc = "doors_done"
    /\ Len(DoorRecords) = 2
    /\ Len(DoorRecords[1].properties.connects_rooms) = 2
    /\ DoorRecords[2].properties.connects_rooms = DoorRecords[1].properties.connects_rooms
    /\ Len(ConnectivityRecords) = 1
    /\ Len(ConnectivityRecords[1].properties.edges) = 1

\* room r is a rectangle with the centerline of wall w as one of its sides
\* and reaches more than half the thickness of w plus the search offset
\* away from that centerline
RectangleOnWall(r, w) ==
    LET vs == rooms[r].properties.vertices
        xs == {vs[i][1] : i \in DOMAIN vs}
        ys == {vs[i][2] : i \in DOMAIN vs}
        a == walls[w].properties.start
        b == walls[w].properties.end
        reach == IF a[1] = b[1] THEN SetMax({Abs(x - a[1]) : x \in xs})
                 ELSE SetMax({Abs(y - a[2]) : y \in ys})
    IN  /\ Len(vs) = 4
        /\ Range(vs) = {<<SetMin(xs), SetMin(ys)>>, <<SetMax(xs), SetMin(ys)>>,
                        <<SetMax(xs), SetMax(ys)>>, <<SetMin(xs), SetMax(ys)>>}
        /\ \E i \in DOMAIN vs : {vs[i], vs[(i % 4) + 1]} = {a, b}
        /\ 2 * reach > walls[w].properties.thickness + 2 * SEARCH_OFFSET

\* door record d has its center at the midpoint of wall w, which rooms r1
\* and r2 share
DoorBetween(d, w, r1, r2) ==
    /\ r1 # r2
    /\ RectangleOnWall(r1, w)
    /\ RectangleOnWall(r2, w)
    /\ 2 * DoorRecords[d].properties.center[1]
           = walls[w].properties.start[1] + walls[w].properties.end[1]
    /\ 2 * DoorRecords[d].properties.center[2]
           = walls[w].properties.start[2] + walls[w].properties.end[2]

\* C20: a door whose center is the midpoint of the wall shared by two
\* adjacent rectangular rooms, each reaching more than half the wall
\* thickness plus 300 away from the centerline, lists both rooms in
\* connects_rooms
C20_DoorConnectsBoth ==
    pc = "doors_done" =>
        \A d \in DOMAIN DoorRecords, w \in DOMAIN walls, r1, r2 \in DOMAIN rooms :
            DoorBetween(d, w, r1, r2) =>
                {rooms[r1].properties.room_index, rooms[r2].properties.room_index}
                    \subseteq Range(DoorRecords[d].properties.connects_rooms)

\* a door on the midpoint of a shared wall, listing exactly the two rooms
C20_Witness ==
    /\ pc = "doors_done"
    /\ \E d \in DOMAIN DoorRecords, w \in DOMAIN walls, r1, r2 \in DOMAIN rooms :
           /\ DoorBetween(d, w, r1, r2)
           /\ DoorRecords[d].properties.wall = <<walls[w].properties.wall_index>>
           /\ Range(DoorRecords[d].properties.connects_rooms)
                  = {rooms[r1].properties.room_index, rooms[r2].properties.room_index}

\* C21 (as stated): no step modifies an input entity, and no record is
\* modified after the step that created it: a list of records, once it is
\* not empty, keeps every record it holds
C21_RecordsImmutable ==
    [][/\ entities' = entities
       /\ \A i \in DOMAIN out : i \in DOMAIN out' /\ out'[i] = out[i]
       /\ basic_records # <<>> => basic_records' = basic_records
       /\ borders # <<>> => borders' = borders
       /\ axis_summaries # <<>> => axis_summaries' = axis_summaries
       /\ columns # <<>> => columns' = columns
       /\ walls # <<>> => walls' = walls
       /\ rooms # <<>> => rooms' = rooms]_vars

\* the wall graph of the walls found, and the cycles found in it
WallGraph == build_wall_graph(walls, ENDPOINT_TOLERANCE)

CyclesFound == find_minimal_cycles(WallGraph, MAX_CYCLE_LENGTH)

\* cycle b is cycle a started from another node, in either direction
SameCycle(a, b) ==
    /\ Len(a) = Len(b)
    /\ \E k \in DOMAIN a :
           \/ b = SubSeq(a, k, Len(a)) \o SubSeq(a, 1, k - 1)
           \/ b = reverse_seq(SubSeq(a, k, Len(a)) \o SubSeq(a, 1, k - 1))

\* C22 (as stated): _find_minimal_cycles returns no two cycles that are
\* rotations or reversals of one another
C22_CyclesOnce ==
    pc \in {"rooms_done", "doors_done"} =>
        \A i, j \in DOMAIN CyclesFound :
            i # j => ~ SameCycle(CyclesFound[i], CyclesFound[j])

\* the point (x / d, y / d) lies on a side of the polygon
OnBoundary(point, vertices) ==
    \E i \in DOMAIN vertices :
        LET a == vertices[i]
            b == vertices[(i % Len(vertices)) + 1]
        IN  /\ (b[1] - a[1]) * (point.y - a[2] * point.d)
                   = (b[2] - a[2]) * (point.x - a[1] * point.d)
            /\ Min2(a[1], b[1]) * point.d <= point.x /\ point.x <= Max2(a[1], b[1]) * point.d
            /\ Min2(a[2], b[2]) * point.d <= point.y /\ point.y <= Max2(a[2], b[2]) * point.d

\* polygon outer encloses polygon inner: every corner of inner and the
\* middle of every side of inner lies inside outer or on its boundary
Encloses(outer, inner) ==
    \A i \in DOMAIN inner :
        LET a == inner[i]
            b == inner[(i % Len(inner)) + 1]
            inside(point) == OnBoundary(point, outer) \/ point_in_polygon(point, outer)
        IN  inside(RatPoint(a)) /\ inside([x |-> a[1] + b[1], y |-> a[2] + b[2], d |-> 2])

\* C23 (as stated): no two rooms describe the same cycle, and no room's
\* polygon encloses the polygon of another room
C23_NoRoomInRoom ==
    pc \in {"rooms_done", "doors_done"} =>
        \A i, j \in DOMAIN rooms :
            i # j =>
                /\ ~ SameCycle(rooms[i].properties.vertices, rooms[j].properties.vertices)
                /\ ~ Encloses(rooms[i].properties.vertices, rooms[j].properties.vertices)

\* the centerline endpoints of the walls found, in list order, and the node
\* each is mapped to
Endpoints == wall_endpoints(walls)

MergedEndpoints ==
    merge_endpoints(Endpoints, 1, {}, Endpoints, ENDPOINT_TOLERANCE)

\* the seeds among the first n endpoints: an endpoint is a seed when no
\* earlier seed is within the tolerance of it
RECURSIVE Seeds(_, _)
Seeds(eps, n) ==
    IF n = 0 THEN {}
    ELSE LET earlier == Seeds(eps, n - 1)
         IN  IF \E s \in earlier : within(eps[s], eps[n], ENDPOINT_TOLERANCE)
             THEN earlier
             ELSE earlier \cup {n}

\* the seed whose cluster endpoint i is in: the first seed within the
\* tolerance of it
SeedOf(eps, seeds, i) ==
    SetMin({s \in seeds : s <= i /\ (s = i \/ within(eps[s], eps[i], ENDPOINT_TOLERANCE))})

\* C24 (amended): the endpoints are clustered greedily in list order: an
\* endpoint is in the cluster of the first seed within the tolerance of
\* it, is mapped to the rounded mean of that cluster, and is no farther
\* than the tolerance from the seed
C24_SeedClusters ==
    pc \in {"rooms_done", "doors_done"} =>
        LET eps == Endpoints
            merged == MergedEndpoints
            seeds == Seeds(eps, Len(eps))
            seed_of == [i \in DOMAIN eps |-> SeedOf(eps, seeds, i)]
        IN  \A i \in DOMAIN eps :
                /\ within(eps[seed_of[i]], eps[i], ENDPOINT_TOLERANCE)
                /\ merged[i] = cluster_point(eps, {k \in DOMAIN eps : seed_of[k] = seed_of[i]})

\* C24 (as stated): any two endpoints no farther apart than the tolerance
\* are mapped to the same node
C24_WithinToleranceOneNode ==
    pc \in {"rooms_done", "doors_done"} =>
        LET eps == Endpoints
            merged == MergedEndpoints
        IN  \A i, j \in DOMAIN eps :
                within(eps[i], eps[j], ENDPOINT_TOLERANCE) => merged[i] = merged[j]

\* three wall ends in a chain, 40 apart: the first seed takes its
\* neighbour, and the third end, 40 from that neighbour, is a node of its own
C24_Witness ==
    /\ pc = "rooms_done"
    /\ Len(walls) = 3
    /\ LET eps == Endpoints
           merged == MergedEndpoints
       IN  \E i, j, k \in DOMAIN eps :
               /\ i # j
               /\ merged[i] = merged[j]
               /\ merged[i] # eps[i]
               /\ within(eps[j], eps[k], ENDPOINT_TOLERANCE)
               /\ merged[k] # merged[j]

\* the values of max_cycle_length the search is examined under
CycleLengths == {3, 4, 6, MAX_CYCLE_LENGTH}

\* the nodes a node of the graph has a wall edge to
Neighbours(graph, node) == {graph.adj[node][k][1] : k \in DOMAIN graph.adj[node]}

\* a simple cycle of the graph with 3 to max_cycle_length nodes
SimpleCycle(graph, cycle, max_cycle_length) ==
    /\ Len(cycle) >= 3
    /\ Len(cycle) <= max_cycle_length
    /\ \A i, j \in DOMAIN cycle : i # j => cycle[i] # cycle[j]
    /\ \A i, j \in DOMAIN cycle :
           i # j => {cycle[i], cycle[(i % Len(cycle)) + 1]}
                        # {cycle[j], cycle[(j % Len(cycle)) + 1]}
    /\ \A i \in DOMAIN cycle :
           /\ cycle[i] \in Range(graph.nodes)
           /\ cycle[(i % Len(cycle)) + 1] \in Neighbours(graph, cycle[i])

\* C25: every cycle the search returns is a simple cycle of the wall graph
\* with 3 to max_cycle_length nodes, whose consecutive nodes (last to
\* first included) are joined by a wall edge
C25_SimpleCycles ==
    pc \in {"rooms_done", "doors_done"} =>
        LET graph == WallGraph
        IN  \A m \in CycleLengths :
                LET cycles == find_minimal_cycles(graph, m)
                IN  \A c \in DOMAIN cycles : SimpleCycle(graph, cycles[c], m)

\* the six-node outline of the L room is returned when six nodes are
\* allowed and not when only four are
C25_Witness ==
    /\ pc = "rooms_done"
    /\ LET graph == WallGraph
       IN  /\ \E c \in Range(find_minimal_cycles(graph, 6)) : Len(c) = 6
           /\ find_minimal_cycles(graph, 4) = <<>>
           /\ Len(graph.nodes) = 6

\* the segments of one layer group, in the order find_walls scans them
GroupSegments(group) ==
    collect_segments(entities,
                     IF borders # <<>> THEN <<borders[1].properties.bbox_world>> ELSE <<>>,
                     upper_set(sel_get(selections, "struct-cwall-layer")),
                     upper_set(sel_get(selections, "non-wall-layer")), group).records

\* the kind of the wall records of a layer group
GroupKind(group) == IF group = "struct" THEN "structural_wall" ELSE "partition_wall"

\* the pairs <<i, j>>, i < j, of segments of a group that a wall record of
\* the group's kind names
GroupPairs(group, segments) ==
    {pr \in (DOMAIN segments) \X (DOMAIN segments) :
        /\ pr[1] < pr[2]
        /\ \E k \in DOMAIN walls :
               /\ walls[k].kind = GroupKind(group)
               /\ walls[k].properties.handles
                      = <<segments[pr[1]].handle, segments[pr[2]].handle>>}

\* C26: within each layer group the walls are the greedy pairing in input
\* order: every wall pairs two segments of its own group, no segment is in
\* two walls, segment i is paired with the first later segment that passes
\* the tests and was not taken by an earlier segment, and a segment left
\* unpaired passes the tests with no later segment that was still free
C26_GreedyPairing ==
    pc = "room" =>
        \A group \in {"struct", "non_struct"} :
            LET segments == GroupSegments(group)
                pairs == GroupPairs(group, segments)
                taken_before(k, i) == \E pr \in pairs : pr[1] < i /\ pr[2] = k
                paired(i) == \E pr \in pairs : i \in {pr[1], pr[2]}
                ok(i, j) == pair_ok(segments[i], segments[j], MAX_THICKNESS, MIN_LENGTH)
            IN  /\ Cardinality({k \in DOMAIN walls : walls[k].kind = GroupKind(group)})
                       = Cardinality(pairs)
                /\ \A pr, qr \in pairs : pr # qr => {pr[1], pr[2]} \cap {qr[1], qr[2]} = {}
                /\ \A pr \in pairs :
                       /\ ok(pr[1], pr[2])
                       /\ \A k \in (pr[1] + 1)..(pr[2] - 1) :
                              taken_before(k, pr[1]) \/ ~ ok(pr[1], k)
                /\ \A i \in DOMAIN segments :
                       ~ paired(i) =>
                           \A j \in (i + 1)..Len(segments) :
                               taken_before(j, i) \/ ~ ok(i, j)

\* the line at y = 0 is paired with the line at y = 400 that follows it,
\* and the line at y = 200, a closer match for either, stays unpaired
C26_Witness ==
    /\ pc = "room"
    /\ entities = <<WallCatalog[1], WallCatalog[3], WallCatalog[2]>>
    /\ Len(walls) = 1
    /\ walls[1].properties.handles = <<<<1>>, <<3>>>>
    /\ walls[1].properties.thickness = 400

\* C27 (amended): two parallel, fully overlapping lines of equal length
\* L >= min_length on one wall layer form a wall exactly when their distance
\* d satisfies 1 <= d <= max_thickness; the wall's thickness is d
C27_DistanceInterval ==
    (/\ pc = "room"
     /\ PairOf(entities) # <<>>
     /\ PairLength(PairOf(entities)) >= MIN_LENGTH)
    => /\ Len(walls) = IF /\ PairDistance(PairOf(entities)) >= 1
                          /\ PairDistance(PairOf(entities)) <= MAX_THICKNESS
                       THEN 1 ELSE 0
       /\ \A k \in DOMAIN walls :
              walls[k].properties.thickness = PairDistance(PairOf(entities))

\* C27 (as stated): a wall forms only if 1 < d <= max_thickness
C27_DistanceAboveOne ==
    (/\ pc = "room"
     /\ PairOf(entities) # <<>>
     /\ walls # <<>>)
    => /\ PairDistance(PairOf(entities)) > 1
       /\ PairDistance(PairOf(entities)) <= MAX_THICKNESS

\* two lines of length 1000 exactly 1 apart became a wall of thickness 1
C27_Witness ==
    /\ pc = "room"
    /\ PairOf(entities) # <<>>
    /\ PairLength(PairOf(entities)) = 1000
    /\ PairDistance(PairOf(entities)) = 1
    /\ Len(walls) = 1
    /\ walls[1].properties.thickness = 1
    /\ walls[1].properties.length = 1000

\* the entities on the column layer with a center and a size, whose center
\* is inside the bounding box of the summary's border and at most eps, in
\* x and in y, from a crossing of its axes; in entity order
AcceptedBy(summary, eps) ==
    LET center(ent) == <<entity_center_and_size(ent).cx, entity_center_and_size(ent).cy>>
        near(c, crossing) == Abs(c[1] - crossing[1]) <= eps /\ Abs(c[2] - crossing[2]) <= eps
        crossings == {<<v.coord, h.coord>> : v \in Range(summary.y_axes), h \in Range(summary.x_axes)}
        accepted(ent) ==
            /\ Upper(ent.layer) \in upper_set(sel_get(selections, "struct-ccol-layer"))
            /\ ~ entity_center_and_size(ent).none
            /\ center(ent)[1] >= summary.bbox.xmin /\ center(ent)[1] <= summary.bbox.xmax
            /\ center(ent)[2] >= summary.bbox.ymin /\ center(ent)[2] <= summary.bbox.ymax
            /\ \E crossing \in crossings : near(center(ent), crossing)
    IN  SelectSeq(entities, accepted)

\* the centers and sizes of the columns expected under a tolerance
ExpectedColumns(eps) ==
    LET found(ents) == [i \in DOMAIN ents |->
                           [center |-> <<entity_center_and_size(ents[i]).cx,
                                         entity_center_and_size(ents[i]).cy>>,
                            size |-> entity_center_and_size(ents[i]).size]]
    IN  Concat([s \in DOMAIN axis_summaries |->
                   found(AcceptedBy(axis_summaries[s].properties, eps))])

\* the centers and sizes of the column records
EmittedColumns ==
    [i \in DOMAIN columns |-> [center |-> columns[i].properties.center,
                               size |-> columns[i].properties.size]]

\* C28, each detector under its own tolerance: the column records are those
\* of the column-layer entities with a center and a size, a center inside
\* the border's bounding box and within the tolerance, in x and in y, of a
\* crossing of the border's axes: a tolerance of 150 in the package
\* detector, of 1 in the worker's run
C28_ColumnsAccepted ==
    /\ pc = "wall" => EmittedColumns = ExpectedColumns(COLUMN_EPS)
    /\ pc = "parse2_column" => EmittedColumns = ExpectedColumns(PARSE2_COLUMN_EPS)

\* C28 (as stated): the tolerance is 150 in the package detector and in the
\* worker's run alike
C28_ColumnsAcceptedAlike ==
    pc \in {"wall", "parse2_column"} => EmittedColumns = ExpectedColumns(COLUMN_EPS)

\* the worker's run kept the circle 1 off the crossing and dropped the one
\* 150 off it, which the package detector accepts
C28_Witness ==
    /\ pc = "parse2_column"
    /\ entities[Len(entities) - 1] = GridColumnCatalog[4]
    /\ entities[Len(entities)] = GridColumnCatalog[2]
    /\ Len(entities) = 6
    /\ Len(columns) = 1
    /\ columns[1].properties.center = <<1, -1>>
    /\ Len(ExpectedColumns(COLUMN_EPS)) = 2

\* the block of the library the selected name stands for, ignoring case:
\* <<>> when there is none, else <<its entities>>
SelectedBlock ==
    LET name == sel_get(selections, "basic-border-block")[1]
        named == {b \in DOMAIN blocks : Upper(blocks[b].name) = Upper(name)}
    IN  IF named = {} THEN <<>> ELSE <<blocks[SetMin(named)].entities>>

\* the vertices of the entities of a block
BlockVertices(block_entities) ==
    UNION {Range(block_entities[i].vertices) : i \in DOMAIN block_entities}

\* a quarter-turn rotation of a point, counter-clockwise by rot degrees
Turned(p, rot) ==
    CASE rot % 360 = 0 -> p
      [] rot % 360 = 90 -> <<-p[2], p[1]>>
      [] rot % 360 = 180 -> <<-p[1], -p[2]>>
      [] OTHER -> <<p[2], -p[1]>>

\* the axis-aligned envelope of the four corners of the local box of the
\* vertices, each scaled, turned and moved as the block reference says
WorldEnvelope(vertices, insert) ==
    LET xs == {v[1] : v \in vertices}
        ys == {v[2] : v \in vertices}
        sx == IF insert.xScale = 0 THEN 1 ELSE insert.xScale
        sy == IF insert.yScale = 0 THEN 1 ELSE insert.yScale
        move == IF insert.position = <<>> THEN <<0, 0>> ELSE insert.position
        world(x, y) == <<Turned(<<x * sx, y * sy>>, insert.rotation)[1] + move[1],
                         Turned(<<x * sx, y * sy>>, insert.rotation)[2] + move[2]>>
        corners == {world(x, y) : x \in {SetMin(xs), SetMax(xs)}, y \in {SetMin(ys), SetMax(ys)}}
    IN  [xmin |-> SetMin({c[1] : c \in corners}), ymin |-> SetMin({c[2] : c \in corners}),
         xmax |-> SetMax({c[1] : c \in corners}), ymax |-> SetMax({c[2] : c \in corners})]

\* the local box of a set of vertices has no width or no height
Degenerate(vertices) ==
    \/ SetMin({v[1] : v \in vertices}) = SetMax({v[1] : v \in vertices})
    \/ SetMin({v[2] : v \in vertices}) = SetMax({v[2] : v \in vertices})

\* the block references of the drawing whose name is the selected name,
\* ignoring case, in entity order
MatchingInserts ==
    SelectSeq(entities,
              LAMBDA ent : /\ ent.type = T_INSERT
                           /\ Upper(ent.name)
                                  = Upper(sel_get(selections, "basic-border-block")[1]))

\* C29: build_border_records returns one record per matching block
\* reference, in entity order, with the envelope of the transformed corners
\* as its world box; it returns nothing, and does not raise, when the block
\* is not in the library or its local box is missing or has no width or no
\* height
C29_BorderRecords ==
    pc \in {"axis", "raised_in_border"} =>
        IF \/ SelectedBlock = <<>>
           \/ BlockVertices(SelectedBlock[1]) = {}
           \/ Degenerate(BlockVertices(SelectedBlock[1]))
        THEN pc = "axis" /\ borders = <<>>
        ELSE /\ pc = "axis"
             /\ Len(borders) = Len(MatchingInserts)
             /\ \A i \in DOMAIN borders :
                    /\ borders[i].properties.insert_handle = MatchingInserts[i].handle
                    /\ borders[i].properties.bbox_world
                           = WorldEnvelope(BlockVertices(SelectedBlock[1]), MatchingInserts[i])

\* C29 with a flat or one-point local box treated as any other box: what
\* build_border_records does
C29_BorderRecordsOfAnyBox ==
    pc \in {"axis", "raised_in_border"} =>
        IF SelectedBlock = <<>> \/ BlockVertices(SelectedBlock[1]) = {}
        THEN pc = "axis" /\ borders = <<>>
        ELSE /\ pc = "axis"
             /\ Len(borders) = Len(MatchingInserts)
             /\ \A i \in DOMAIN borders :
                    /\ borders[i].properties.insert_handle = MatchingInserts[i].handle
                    /\ borders[i].properties.bbox_world
                           = WorldEnvelope(BlockVertices(SelectedBlock[1]), MatchingInserts[i])

\* all the vertices of an entity lie inside a world box
InsideBox(ent, box) ==
    \A v \in Range(ent.vertices) :
        v[1] >= box.xmin /\ v[1] <= box.xmax /\ v[2] >= box.ymin /\ v[2] <= box.ymax

\* the wall-layer entities that are candidates: those inside the box of the
\* first border, or all of them when there is no border
WallCandidates ==
    {i \in DOMAIN entities :
        /\ entities[i].type \in {T_LINE, T_LWPOLYLINE}
        /\ Upper(entities[i].layer) \in upper_set(sel_get(selections, "non-wall-layer"))
        /\ borders # <<>> => InsideBox(entities[i], borders[1].properties.bbox_world)}

\* two segments, one of each of two entities, pass the tests of a pair
CanPair(i, j) ==
    \E a \in Range(extract_line_data(entities[i]).records),
       b \in Range(extract_line_data(entities[j]).records) :
        pair_ok(a, b, MAX_THICKNESS, MIN_LENGTH)

\* C30: every segment of a wall comes from an entity that lies inside the
\* world box of the first border, when there is a border; the candidates
\* are not filtered further: when two of them can be paired, a wall is
\* found, and without a border every wall-layer entity is a candidate
C30_FirstBorderFilter ==
    pc = "room" =>
        /\ \A k \in DOMAIN walls :
               \A a \in 1..2 :
                   \E i \in WallCandidates :
                       entities[i].handle = walls[k].properties.handles[a][1]
        /\ (\E i, j \in WallCandidates : i < j /\ CanPair(i, j)) => walls # <<>>

\* two title blocks: the pair of lines inside the second one gives no wall
C30_Witness ==
    /\ pc = "room"
    /\ Len(borders) = 2
    /\ borders[1].properties.insert_handle = 1
    /\ walls = <<>>
    /\ \E i, j \in DOMAIN entities :
           /\ i < j
           /\ CanPair(i, j)
           /\ InsideBox(entities[i], borders[2].properties.bbox_world)
           /\ InsideBox(entities[j], borders[2].properties.bbox_world)

\* no title block: the same pair of lines gives a wall
C30_WitnessNoBorder ==
    /\ pc = "room"
    /\ borders = <<>>
    /\ Len(walls) = 1
    /\ walls[1].properties.handles = << <<13>>, <<14>> >>


====
